---- MODULE Spec2Model ----
(***************************************************************************)
(* A model of gosuda/randflake: the SPARX-64/128 permutation cipher        *)
(* (sparx64, Go and TypeScript) and the lease-bound generator              *)
(* (randflake.go).                                                         *)
(*                                                                         *)
(* Representation.  TLC integers are 32-bit, so a 64-bit machine integer   *)
(* (int64 / uint64) is a tuple of four 16-bit limbs, least significant     *)
(* first: <<w0, w1, w2, w3>> stands for w0 + 2^16 w1 + 2^32 w2 + 2^48 w3   *)
(* (mod 2^64); as an int64 it is negative when w3 >= 2^15.  Byte slices    *)
(* are sequences of numbers in 0..255.  Go arrays indexed from 0 are       *)
(* sequences indexed from 1.                                               *)
(***************************************************************************)
EXTENDS Integers, Sequences, FiniteSets, TLC

(***************************************************************************)
(* 16-bit words                                                            *)
(***************************************************************************)
RECURSIVE XorBits(_, _, _)
XorBits(a, b, n) ==
    IF n = 0 THEN 0
    ELSE ((a + b) % 2) + 2 * XorBits(a \div 2, b \div 2, n - 1)

RECURSIVE AndBits(_, _, _)
AndBits(a, b, n) ==
    IF n = 0 THEN 0
    ELSE ((a % 2) * (b % 2)) + 2 * AndBits(a \div 2, b \div 2, n - 1)

\* the ^ and & operators on bytes, tabulated once
XorByte == [a \in 0..255 |-> [b \in 0..255 |-> XorBits(a, b, 8)]]
AndByte == [a \in 0..255 |-> [b \in 0..255 |-> AndBits(a, b, 8)]]

\* the ^, & and | operators on uint16
Xor16(a, b) == XorByte[a \div 2^8][b \div 2^8] * 2^8 + XorByte[a % 2^8][b % 2^8]
And16(a, b) == AndByte[a \div 2^8][b \div 2^8] * 2^8 + AndByte[a % 2^8][b % 2^8]
Or16(a, b) == a + b - And16(a, b)

\* uint16 wrap-around of a sum or difference
U16(n) == (n + 2^16) % 2^16

(***************************************************************************)
(* 64-bit integers as four 16-bit limbs                                    *)
(***************************************************************************)
\* the int64 of a number that fits a TLC integer (two's complement)
I64(n) ==
    IF n >= 0 THEN <<n % 2^16, n \div 2^16, 0, 0>>
    ELSE LET m == -(n + 1)   \* the bits of n are the complement of those of m
         IN  <<65535 - (m % 2^16), 65535 - (m \div 2^16), 65535, 65535>>

IsNeg64(a) == a[4] >= 2^15

\* a + b + carry on limbs i..4, modulo 2^64
RECURSIVE AddLimbs(_, _, _, _)
AddLimbs(a, b, i, carry) ==
    IF i > 4 THEN <<>>
    ELSE <<(a[i] + b[i] + carry) % 2^16>> \o AddLimbs(a, b, i + 1, (a[i] + b[i] + carry) \div 2^16)

Add64(a, b) == AddLimbs(a, b, 1, 0)
Not64(a) == [i \in 1..4 |-> 65535 - a[i]]
Neg64(a) == Add64(Not64(a), I64(1))
Sub64(a, b) == Add64(a, Neg64(b))

\* unsigned comparison of limbs i..1
RECURSIVE LtLimbs(_, _, _)
LtLimbs(a, b, i) ==
    IF i = 0 THEN FALSE
    ELSE IF a[i] # b[i] THEN a[i] < b[i]
    ELSE LtLimbs(a, b, i - 1)

\* the < > <= >= operators on int64
Lt64(a, b) ==
    IF IsNeg64(a) # IsNeg64(b) THEN IsNeg64(a) ELSE LtLimbs(a, b, 4)
Gt64(a, b) == Lt64(b, a)
Le64(a, b) == ~Lt64(b, a)
Ge64(a, b) == ~Lt64(a, b)

\* the < operator on uint64
LtU64(a, b) == LtLimbs(a, b, 4)

\* a << n on 64 bits, 0 <= n < 64
Shl64(a, n) ==
    LET q == n \div 16
        r == n % 16
        limb(i) == IF i >= 1 THEN a[i] ELSE 0
    IN  [i \in 1..4 |-> ((limb(i - q) * 2^r) % 2^16) + (limb(i - q - 1) \div 2^(16 - r))]

\* a >> n on int64 (arithmetic: the sign is shifted in), 0 <= n < 64
Sar64(a, n) ==
    LET q == n \div 16
        r == n % 16
        fill == IF IsNeg64(a) THEN 65535 ELSE 0
        limb(i) == IF i <= 4 THEN a[i] ELSE fill
    IN  [i \in 1..4 |-> (limb(i + q) \div 2^r) + ((limb(i + q + 1) % 2^r) * 2^(16 - r))]

\* a >> n on uint64 (logical), 0 <= n < 64
Shr64(a, n) ==
    LET q == n \div 16
        r == n % 16
        limb(i) == IF i <= 4 THEN a[i] ELSE 0
    IN  [i \in 1..4 |-> (limb(i + q) \div 2^r) + ((limb(i + q + 1) % 2^r) * 2^(16 - r))]

And64(a, b) == [i \in 1..4 |-> And16(a[i], b[i])]
Or64(a, b) == [i \in 1..4 |-> Or16(a[i], b[i])]

\* the number an int64 stands for, when it fits a TLC integer
ToInt(a) ==
    IF IsNeg64(a) THEN -(Not64(a)[1] + 2^16 * Not64(a)[2]) - 1
    ELSE a[1] + 2^16 * a[2]

FitsInt(a) ==
    \/ a[3] = 0 /\ a[4] = 0 /\ a[2] < 2^15
    \/ a[3] = 65535 /\ a[4] = 65535 /\ a[2] >= 2^15

\* binary.LittleEndian.PutUint64 and binary.LittleEndian.Uint64
PutUint64_BE(a) == [i \in 1..8 |-> IF i % 2 = 1 THEN a[(10 - i) \div 2] \div 2^8
                                    ELSE a[(10 - i) \div 2] % 2^8]

PutUint64(a) == [i \in 1..8 |-> IF i % 2 = 1 THEN a[(i + 1) \div 2] % 2^8
                                 ELSE a[i \div 2] \div 2^8]
Uint64(b) == [i \in 1..4 |-> b[2 * i - 1] + 2^8 * b[2 * i]]

(***************************************************************************)
(* sparx64 (Go)                                                            *)
(***************************************************************************)
_N_STEPS == 8
_ROUNDS_PER_STEPS == 3
_N_BRANCHES == 2
_K_SIZE == 4

rotl(x, n) == ((x * 2^n) % 2^16) + (x \div 2^(16 - n))

\* one keyless round of SPECK-32 on the pair <<l, r>>
_A(l, r) ==
    LET l1 == rotl(l, 9)
        l2 == U16(l1 + r)
        r1 == rotl(r, 2)
        r2 == Xor16(r1, l2)
    IN  <<l2, r2>>

\* an inverse that rotates l the wrong way round
_A_inv_Rot9(l, r) ==
    LET r2 == rotl(Xor16(r, l), 14)
    IN  <<rotl(U16(l - r2), 9), r2>>

_A_inv(l, r) ==
    LET r1 == Xor16(r, l)
        r2 == rotl(r1, 14)
        l1 == U16(l - r2)
        l2 == rotl(l1, 7)
    IN  <<l2, r2>>

_L_2(x) ==
    LET tmp == rotl(Xor16(x[1], x[2]), 8)
        x2  == Xor16(x[3], Xor16(x[1], tmp))
        x3  == Xor16(x[4], Xor16(x[2], tmp))
    IN  <<x2, x3, x[1], x[2]>>

_L_2_inv(x) ==
    LET y   == <<x[3], x[4], x[1], x[2]>>
        tmp == rotl(Xor16(y[1], y[2]), 8)
    IN  <<y[1], y[2], Xor16(y[3], Xor16(y[1], tmp)), Xor16(y[4], Xor16(y[2], tmp))>>

\* a key permutation that leaves the round counter out
_K_perm_64_128_NoCounter(k, c) ==
    LET a == _A(k[1], k[2])
    IN  <<k[7], k[8], a[1], a[2], U16(k[3] + a[1]), U16(k[4] + a[2]), k[5], k[6]>>

_K_perm_64_128(k, c) ==
    LET a  == _A(k[1], k[2])
        k2 == U16(k[3] + a[1])
        k3 == U16(k[4] + a[2])
        k7 == U16(k[8] + c)
    IN  <<k[7], k7, a[1], a[2], k2, k3, k[5], k[6]>>

\* the loop of key_schedule from index c on: <<subkeys, masterKey>> at its end
RECURSIVE key_schedule_from(_, _, _)
key_schedule_from(subkeys, masterKey, c) ==
    IF c >= _N_BRANCHES * _N_STEPS + 1 THEN <<subkeys, masterKey>>
    ELSE key_schedule_from(
             [subkeys EXCEPT ![c + 1] = SubSeq(masterKey, 1, 2 * _ROUNDS_PER_STEPS)],
             _K_perm_64_128(masterKey, U16(c + 1)),
             c + 1)

ZeroSubkeys ==
    [c \in 1..(_N_BRANCHES * _N_STEPS + 1) |-> [j \in 1..(2 * _ROUNDS_PER_STEPS) |-> 0]]

key_schedule(subkeys, masterKey) == key_schedule_from(subkeys, masterKey, 0)

\* the r-loop of sparx_encrypt on branch b of x, from round r on
RECURSIVE enc_rounds(_, _, _, _)
enc_rounds(x, kb, b, r) ==
    IF r >= _ROUNDS_PER_STEPS \/ Len(x) # 2 * _N_BRANCHES THEN x
    ELSE LET a == _A(Xor16(x[2 * b + 1], kb[2 * r + 1]), Xor16(x[2 * b + 2], kb[2 * r + 2]))
         IN  enc_rounds([x EXCEPT ![2 * b + 1] = a[1], ![2 * b + 2] = a[2]], kb, b, r + 1)

RECURSIVE enc_branches(_, _, _, _)
enc_branches(x, k, s, b) ==
    IF b >= _N_BRANCHES \/ Len(x) # 2 * _N_BRANCHES THEN x
    ELSE enc_branches(enc_rounds(x, k[_N_BRANCHES * s + b + 1], b, 0), k, s, b + 1)

RECURSIVE enc_steps(_, _, _)
enc_steps(x, k, s) ==
    IF s >= _N_STEPS \/ Len(x) # 2 * _N_BRANCHES THEN x
    ELSE enc_steps(_L_2(enc_branches(x, k, s, 0)), k, s + 1)

\* the whitening loop shared by sparx_encrypt and sparx_decrypt
RECURSIVE whiten(_, _, _)
whiten(x, k, b) ==
    IF b >= _N_BRANCHES THEN x
    ELSE whiten([x EXCEPT ![2 * b + 1] = Xor16(x[2 * b + 1], k[_N_BRANCHES * _N_STEPS + 1][2 * b + 1]),
                          ![2 * b + 2] = Xor16(x[2 * b + 2], k[_N_BRANCHES * _N_STEPS + 1][2 * b + 2])],
                k, b + 1)

sparx_encrypt(x, k) == whiten(enc_steps(x, k, 0), k, 0)

\* the r-loop of sparx_decrypt on branch b of x, from round r down
RECURSIVE dec_rounds(_, _, _, _)
dec_rounds(x, kb, b, r) ==
    IF r < 0 \/ Len(x) # 2 * _N_BRANCHES THEN x
    ELSE LET a == _A_inv(x[2 * b + 1], x[2 * b + 2])
         IN  dec_rounds([x EXCEPT ![2 * b + 1] = Xor16(a[1], kb[2 * r + 1]),
                                  ![2 * b + 2] = Xor16(a[2], kb[2 * r + 2])],
                        kb, b, r - 1)

RECURSIVE dec_branches(_, _, _, _)
dec_branches(x, k, s, b) ==
    IF b >= _N_BRANCHES \/ Len(x) # 2 * _N_BRANCHES THEN x
    ELSE dec_branches(dec_rounds(x, k[_N_BRANCHES * s + b + 1], b, _ROUNDS_PER_STEPS - 1),
                      k, s, b + 1)

RECURSIVE dec_steps(_, _, _)
dec_steps(x, k, s) ==
    IF s < 0 \/ Len(x) # 2 * _N_BRANCHES THEN x
    ELSE dec_steps(dec_branches(_L_2_inv(x), k, s, 0), k, s - 1)

sparx_decrypt(x, k) == dec_steps(whiten(x, k, 0), k, _N_STEPS - 1)

\* uint16(b[2i])<<8 | uint16(b[2i+1]) for the n words of a byte slice
BytesToWords(b, n) == [i \in 1..n |-> b[2 * i - 1] * 2^8 + b[2 * i]]

\* byte(x[i] >> 8), byte(x[i]) for every word of x
WordsToBytes(x) ==
    [i \in 1..(2 * Len(x)) |-> IF i % 2 = 1 THEN x[(i + 1) \div 2] \div 2^8
                                ELSE x[i \div 2] % 2^8]

\* NewSparx64: the subkeys of the instance and the temporary _key as it is left
NewSparx64(key) ==
    IF Len(key) # 16 THEN [panic |-> TRUE, subkeys |-> ZeroSubkeys, _key |-> <<>>]
    ELSE LET ks == key_schedule(ZeroSubkeys, BytesToWords(key, 2 * _K_SIZE))
         IN  [panic |-> FALSE, subkeys |-> ks[1], _key |-> [i \in 1..Len(ks[2]) |-> 0]]

\* an Encrypt without the bounds checks of src[7] and dst[7]
Encrypt_NoIndexCheck(subkeys, dst, src) ==
    IF Len(src) # 8 /\ Len(dst) >= 8 THEN [panic |-> TRUE, dst |-> dst]
    ELSE IF Len(src) < 8 \/ Len(dst) < 8 THEN [panic |-> FALSE, dst |-> dst]
    ELSE LET out == WordsToBytes(sparx_encrypt(BytesToWords(src, 2 * _N_BRANCHES), subkeys))
         IN  [panic |-> FALSE, dst |-> [i \in 1..Len(dst) |-> IF i <= 8 THEN out[i] ELSE dst[i]]]

\* (s *Sparx64) Encrypt(dst, src): dst afterwards, or a panic
Encrypt(subkeys, dst, src) ==
    IF (Len(src) # 8 /\ Len(dst) >= 8) \/ Len(src) < 8 \/ Len(dst) < 8
    THEN [panic |-> TRUE, dst |-> dst]
    ELSE LET out == WordsToBytes(sparx_encrypt(BytesToWords(src, 2 * _N_BRANCHES), subkeys))
         IN  [panic |-> FALSE, dst |-> [i \in 1..Len(dst) |-> IF i <= 8 THEN out[i] ELSE dst[i]]]

\* (s *Sparx64) Decrypt(dst, src): dst afterwards, or a panic
Decrypt(subkeys, dst, src) ==
    IF (Len(src) # 8 /\ Len(dst) >= 8) \/ Len(src) < 8 \/ Len(dst) < 8
    THEN [panic |-> TRUE, dst |-> dst]
    ELSE LET out == WordsToBytes(sparx_decrypt(BytesToWords(src, 2 * _N_BRANCHES), subkeys))
         IN  [panic |-> FALSE, dst |-> [i \in 1..Len(dst) |-> IF i <= 8 THEN out[i] ELSE dst[i]]]

\* a Destroy that stops before the last row of subkeys
Destroy_SkipsLast(subkeys) ==
    [i \in DOMAIN subkeys |->
       IF i = Len(subkeys) THEN subkeys[i] ELSE [j \in DOMAIN subkeys[i] |-> 0]]

\* (s *Sparx64) Destroy: the subkeys afterwards
Destroy(subkeys) == [i \in DOMAIN subkeys |-> [j \in DOMAIN subkeys[i] |-> 0]]

(***************************************************************************)
(* sparx64 (TypeScript, packages/sparx64)                                  *)
(***************************************************************************)
N_STEPS == 8
ROUNDS_PER_STEPS == 3
N_BRANCHES == 2
K_SIZE == 4

\* ((x << n) | (x >> (16 - n))) & 0xFFFF
ts_rotl(x, n) == Or16((x * 2^n) % 2^16, x \div 2^(16 - n))

A(l, r) ==
    LET l1 == ts_rotl(l, 9)
        l2 == And16(U16(l1 + r), 65535)
        r1 == ts_rotl(r, 2)
    IN  <<l2, Xor16(r1, l2)>>

A_inv(l, r) ==
    LET r1 == Xor16(r, l)
        r2 == ts_rotl(r1, 14)
        l1 == And16(U16(l - r2), 65535)
    IN  <<ts_rotl(l1, 7), r2>>

L_2(x) ==
    LET tmp == ts_rotl(Xor16(x[1], x[2]), 8)
        x2  == Xor16(x[3], Xor16(x[1], tmp))
        x3  == Xor16(x[4], Xor16(x[2], tmp))
    IN  <<x2, x3, x[1], x[2]>>

L_2_inv(x) ==
    LET y   == <<x[3], x[4], x[1], x[2]>>
        tmp == ts_rotl(Xor16(y[1], y[2]), 8)
    IN  <<y[1], y[2], Xor16(y[3], Xor16(y[1], tmp)), Xor16(y[4], Xor16(y[2], tmp))>>

K_perm_64_128(k, c) ==
    LET a  == A(k[1], k[2])
        k2 == And16(U16(k[3] + a[1]), 65535)
        k3 == And16(U16(k[4] + a[2]), 65535)
        k7 == And16(U16(k[8] + c), 65535)
    IN  <<k[7], k7, a[1], a[2], k2, k3, k[5], k[6]>>

\* the loop of key_schedule from index c on
RECURSIVE ts_key_schedule_from(_, _, _)
ts_key_schedule_from(subkeys, masterKey, c) ==
    IF c >= N_BRANCHES * N_STEPS + 1 THEN subkeys
    ELSE ts_key_schedule_from(
             [subkeys EXCEPT ![c + 1] = SubSeq(masterKey, 1, 2 * ROUNDS_PER_STEPS)],
             K_perm_64_128(masterKey, c + 1),
             c + 1)

ts_key_schedule(masterKey) ==
    ts_key_schedule_from(
        [c \in 1..(N_BRANCHES * N_STEPS + 1) |-> [j \in 1..(2 * ROUNDS_PER_STEPS) |-> 0]],
        masterKey, 0)

RECURSIVE ts_enc_rounds(_, _, _, _)
ts_enc_rounds(x, kb, b, r) ==
    IF r >= ROUNDS_PER_STEPS \/ Len(x) # 2 * N_BRANCHES THEN x
    ELSE LET a == A(Xor16(x[2 * b + 1], kb[2 * r + 1]), Xor16(x[2 * b + 2], kb[2 * r + 2]))
         IN  ts_enc_rounds([x EXCEPT ![2 * b + 1] = a[1], ![2 * b + 2] = a[2]], kb, b, r + 1)

RECURSIVE ts_enc_branches(_, _, _, _)
ts_enc_branches(x, k, s, b) ==
    IF b >= N_BRANCHES \/ Len(x) # 2 * N_BRANCHES THEN x
    ELSE ts_enc_branches(ts_enc_rounds(x, k[N_BRANCHES * s + b + 1], b, 0), k, s, b + 1)

RECURSIVE ts_enc_steps(_, _, _)
ts_enc_steps(x, k, s) ==
    IF s >= N_STEPS \/ Len(x) # 2 * N_BRANCHES THEN x
    ELSE ts_enc_steps(L_2(ts_enc_branches(x, k, s, 0)), k, s + 1)

RECURSIVE ts_whiten(_, _, _)
ts_whiten(x, k, b) ==
    IF b >= N_BRANCHES THEN x
    ELSE ts_whiten([x EXCEPT ![2 * b + 1] = Xor16(x[2 * b + 1], k[N_BRANCHES * N_STEPS + 1][2 * b + 1]),
                             ![2 * b + 2] = Xor16(x[2 * b + 2], k[N_BRANCHES * N_STEPS + 1][2 * b + 2])],
                   k, b + 1)

ts_sparx_encrypt(x, k) == ts_whiten(ts_enc_steps(x, k, 0), k, 0)

RECURSIVE ts_dec_rounds(_, _, _, _)
ts_dec_rounds(x, kb, b, r) ==
    IF r < 0 \/ Len(x) # 2 * N_BRANCHES THEN x
    ELSE LET a == A_inv(x[2 * b + 1], x[2 * b + 2])
         IN  ts_dec_rounds([x EXCEPT ![2 * b + 1] = Xor16(a[1], kb[2 * r + 1]),
                                     ![2 * b + 2] = Xor16(a[2], kb[2 * r + 2])],
                           kb, b, r - 1)

RECURSIVE ts_dec_branches(_, _, _, _)
ts_dec_branches(x, k, s, b) ==
    IF b >= N_BRANCHES \/ Len(x) # 2 * N_BRANCHES THEN x
    ELSE ts_dec_branches(ts_dec_rounds(x, k[N_BRANCHES * s + b + 1], b, ROUNDS_PER_STEPS - 1),
                         k, s, b + 1)

RECURSIVE ts_dec_steps(_, _, _)
ts_dec_steps(x, k, s) ==
    IF s < 0 \/ Len(x) # 2 * N_BRANCHES THEN x
    ELSE ts_dec_steps(ts_dec_branches(L_2_inv(x), k, s, 0), k, s - 1)

ts_sparx_decrypt(x, k) == ts_dec_steps(ts_whiten(x, k, 0), k, N_STEPS - 1)

\* (key[i * 2] << 8) | key[i * 2 + 1] for the n words of a Uint8Array
ts_words(b, n) == [i \in 1..n |-> Or16(b[2 * i - 1] * 2^8, b[2 * i])]

\* new Sparx64(key): the subkeys and the temporary _key as it is left, or the
\* error thrown
Sparx64(key) ==
    IF Len(key) # 16 THEN [throws |-> TRUE, subkeys |-> <<>>, _key |-> <<>>]
    ELSE [throws |-> FALSE, subkeys |-> ts_key_schedule(ts_words(key, 2 * K_SIZE)),
          _key |-> [i \in 1..(2 * K_SIZE) |-> 0]]

\* encrypt(dst, src) and decrypt(dst, src): dst afterwards, or the error thrown
encrypt(subkeys, dst, src) ==
    IF Len(src) # 8 \/ Len(dst) < 8 THEN [throws |-> TRUE, dst |-> dst]
    ELSE LET x == ts_sparx_encrypt(ts_words(src, 2 * N_BRANCHES), subkeys)
         IN  [throws |-> FALSE,
              dst |-> [i \in 1..Len(dst) |->
                         IF i > 8 THEN dst[i]
                         ELSE IF i % 2 = 1 THEN x[(i + 1) \div 2] \div 2^8
                         ELSE And16(x[i \div 2], 255)]]

decrypt(subkeys, dst, src) ==
    IF Len(src) # 8 \/ Len(dst) < 8 THEN [throws |-> TRUE, dst |-> dst]
    ELSE LET x == ts_sparx_decrypt(ts_words(src, 2 * N_BRANCHES), subkeys)
         IN  [throws |-> FALSE,
              dst |-> [i \in 1..Len(dst) |->
                         IF i > 8 THEN dst[i]
                         ELSE IF i % 2 = 1 THEN x[(i + 1) \div 2] \div 2^8
                         ELSE And16(x[i \div 2], 255)]]

\* destroy(): the subkeys afterwards
destroy(subkeys) == [i \in DOMAIN subkeys |-> [j \in DOMAIN subkeys[i] |-> 0]]

(***************************************************************************)
(* randflake (Go): constants and errors                                    *)
(***************************************************************************)
RANDFLAKE_EPOCH_OFFSET == I64(1730000000)
RANDFLAKE_TIMESTAMP_BITS == 30
RANDFLAKE_NODE_BITS == 17
RANDFLAKE_SEQUENCE_BITS == 17
RANDFLAKE_MAX_TIMESTAMP ==
    Sub64(Add64(RANDFLAKE_EPOCH_OFFSET, Shl64(I64(1), RANDFLAKE_TIMESTAMP_BITS)), I64(1))
RANDFLAKE_MAX_NODE == 2^RANDFLAKE_NODE_BITS - 1
RANDFLAKE_MAX_SEQUENCE == 2^RANDFLAKE_SEQUENCE_BITS - 1

ErrRandflakeDead == "ErrRandflakeDead"
ErrInvalidSecret == "ErrInvalidSecret"
ErrInvalidLease == "ErrInvalidLease"
ErrInvalidNode == "ErrInvalidNode"
ErrResourceExhausted == "ErrResourceExhausted"
ErrConsistencyViolation == "ErrConsistencyViolation"
ErrInvalidID == "ErrInvalidID"
nil == "nil"

(***************************************************************************)
(* randflake (Go): the pure parts of the Generator                         *)
(***************************************************************************)
\* a constructor that accepts the node id RANDFLAKE_MAX_NODE + 1
NewGenerator_WideNode(nodeID_, leaseStart_, leaseEnd_, secret) ==
    IF Lt64(leaseEnd_, leaseStart_) \/ Lt64(leaseStart_, RANDFLAKE_EPOCH_OFFSET)
    THEN [err |-> ErrInvalidLease, made |-> FALSE]
    ELSE IF nodeID_ < 0 \/ nodeID_ > RANDFLAKE_MAX_NODE + 1
    THEN [err |-> ErrInvalidNode, made |-> FALSE]
    ELSE IF Gt64(leaseEnd_, RANDFLAKE_MAX_TIMESTAMP) THEN [err |-> ErrRandflakeDead, made |-> FALSE]
    ELSE IF Len(secret) # 16 THEN [err |-> ErrInvalidSecret, made |-> FALSE]
    ELSE [err |-> nil, made |-> TRUE,
          leaseStart |-> leaseStart_, leaseEnd |-> leaseEnd_, nodeID |-> nodeID_,
          sequence |-> 0, rollover |-> leaseStart_,
          sbox |-> NewSparx64(secret).subkeys]

\* NewGenerator: the error and, when it is nil, the fields of the Generator
NewGenerator(nodeID_, leaseStart_, leaseEnd_, secret) ==
    LET none == [err |-> nil, made |-> FALSE]
    IN  IF Lt64(leaseEnd_, leaseStart_) THEN [none EXCEPT !.err = ErrInvalidLease]
        ELSE IF nodeID_ < 0 \/ nodeID_ > RANDFLAKE_MAX_NODE THEN [none EXCEPT !.err = ErrInvalidNode]
        ELSE IF Lt64(leaseStart_, RANDFLAKE_EPOCH_OFFSET) THEN [none EXCEPT !.err = ErrInvalidLease]
        ELSE IF Gt64(leaseEnd_, RANDFLAKE_MAX_TIMESTAMP) THEN [none EXCEPT !.err = ErrRandflakeDead]
        ELSE IF Len(secret) # 16 THEN [none EXCEPT !.err = ErrInvalidSecret]
        ELSE [err |-> nil, made |-> TRUE,
              leaseStart |-> leaseStart_, leaseEnd |-> leaseEnd_, nodeID |-> nodeID_,
              sequence |-> 0, rollover |-> leaseStart_,
              sbox |-> NewSparx64(secret).subkeys]

\* a packing that leaves the node id out
PackRAW_NoNode(now_, nodeID_, ctr_) ==
    Or64(Shl64(Sub64(now_, RANDFLAKE_EPOCH_OFFSET), RANDFLAKE_NODE_BITS + RANDFLAKE_SEQUENCE_BITS),
         I64(ctr_))

\* the value newRAW returns for the clock reading now_ and the counter value ctr_
PackRAW(now_, nodeID_, ctr_) ==
    LET timestamp == Sub64(now_, RANDFLAKE_EPOCH_OFFSET)
    IN  Or64(Or64(Shl64(timestamp, RANDFLAKE_NODE_BITS + RANDFLAKE_SEQUENCE_BITS),
                  Shl64(I64(nodeID_), RANDFLAKE_SEQUENCE_BITS)),
             I64(ctr_))

\* Generate after newRAW returned id_ without error: the encrypted identifier
EncryptRAW(subkeys, id_) ==
    LET b == PutUint64(id_)
    IN  Uint64(Encrypt(subkeys, b, b).dst)

\* Inspect that reads the raw value as unsigned and never fails
Inspect_Unsigned(subkeys, id_) ==
    LET b   == PutUint64(id_)
        raw == Uint64(Decrypt(subkeys, b, b).dst)
    IN  [timestamp |-> Add64(Sar64(raw, RANDFLAKE_NODE_BITS + RANDFLAKE_SEQUENCE_BITS),
                             RANDFLAKE_EPOCH_OFFSET),
         nodeID    |-> ToInt(And64(Sar64(raw, RANDFLAKE_SEQUENCE_BITS), I64(RANDFLAKE_MAX_NODE))),
         sequence  |-> ToInt(And64(raw, I64(RANDFLAKE_MAX_SEQUENCE))),
         err       |-> nil]

\* Inspect
Inspect(subkeys, id_) ==
    LET b   == PutUint64(id_)
        raw == Uint64(Decrypt(subkeys, b, b).dst)
    IN  IF IsNeg64(raw)
        THEN [timestamp |-> I64(0), nodeID |-> 0, sequence |-> 0, err |-> ErrInvalidLease]
        ELSE [timestamp |-> Add64(Sar64(raw, RANDFLAKE_NODE_BITS + RANDFLAKE_SEQUENCE_BITS),
                                  RANDFLAKE_EPOCH_OFFSET),
              nodeID    |-> ToInt(And64(Sar64(raw, RANDFLAKE_SEQUENCE_BITS), I64(RANDFLAKE_MAX_NODE))),
              sequence  |-> ToInt(And64(raw, I64(RANDFLAKE_MAX_SEQUENCE))),
              err       |-> nil]

(***************************************************************************)
(* randflake (Go): the string form of an identifier.  A string is the      *)
(* sequence of its runes, a rune is its code point; Rune gives the code    *)
(* point of the characters written in this module.                         *)
(***************************************************************************)
Digits == <<"0", "1", "2", "3", "4", "5", "6", "7", "8", "9">>
Lower == <<"a", "b", "c", "d", "e", "f", "g", "h", "i", "j", "k", "l", "m",
           "n", "o", "p", "q", "r", "s", "t", "u", "v", "w", "x", "y", "z">>
Upper == <<"A", "B", "C", "D", "E", "F", "G", "H", "I", "J", "K", "L", "M",
           "N", "O", "P", "Q", "R", "S", "T", "U", "V", "W", "X", "Y", "Z">>

\* the code point of a character
Rune ==
    [c \in {Digits[i] : i \in 1..10} |-> 47 + (CHOOSE i \in 1..10 : Digits[i] = c)]
    @@ [c \in {Lower[i] : i \in 1..26} |-> 96 + (CHOOSE i \in 1..26 : Lower[i] = c)]
    @@ [c \in {Upper[i] : i \in 1..26} |-> 64 + (CHOOSE i \in 1..26 : Upper[i] = c)]
    @@ ("=" :> 61) @@ ("!" :> 33) @@ (" " :> 32) @@ ("-" :> 45) @@ ("/" :> 47)
    @@ (":" :> 58) @@ ("@" :> 64) @@ ("_" :> 95)

\* a string literal, written character by character
Str(cs) == [i \in 1..Len(cs) |-> Rune[cs[i]]]

b32hexchars_Upper == Str(SubSeq(Digits, 1, 10) \o SubSeq(Upper, 1, 22))

b32hexchars == Str(SubSeq(Digits, 1, 10) \o SubSeq(Lower, 1, 22))

\* the loop of base32hexencode; encoded[idx] of the code is encoded[idx + 1] here
RECURSIVE base32hexencode_loop(_, _, _)
base32hexencode_loop(num, encoded, idx) ==
    IF LtU64(I64(0), num) \/ Len(encoded) # 13
    THEN base32hexencode_loop(
             Shr64(num, 5),
             [encoded EXCEPT ![idx + 1] = b32hexchars[ToInt(And64(num, I64(31))) + 1]],
             idx - 1)
    ELSE SubSeq(encoded, idx + 2, 13)

base32hexencode(num) ==
    IF num = I64(0) THEN Str(<<"0">>)
    ELSE base32hexencode_loop(num, [i \in 1..13 |-> 0], 12)

\* the loop of base32hexdecode over the runes of s, from the i-th
RECURSIVE base32hexdecode_loop(_, _, _)
base32hexdecode_loop(s, i, num) ==
    IF i > Len(s) \/ Len(num) # 4 THEN [num |-> num, err |-> nil]
    ELSE LET c == s[i]
             shifted == Shl64(num, 5)
         IN  IF c = Rune["="] THEN [num |-> num, err |-> nil]
             ELSE IF c >= Rune["0"] /\ c <= Rune["9"]
             THEN base32hexdecode_loop(s, i + 1, Add64(shifted, I64(c - Rune["0"])))
             ELSE IF c >= Rune["a"] /\ c <= Rune["v"]
             THEN base32hexdecode_loop(s, i + 1, Add64(shifted, I64(c - Rune["a"] + 10)))
             ELSE IF c >= Rune["A"] /\ c <= Rune["V"]
             THEN base32hexdecode_loop(s, i + 1, Add64(shifted, I64(c - Rune["A"] + 10)))
             ELSE [num |-> I64(0), err |-> ErrInvalidID]

base32hexdecode_From2(s) == base32hexdecode_loop(s, 2, I64(0))

base32hexdecode(s) == base32hexdecode_loop(s, 1, I64(0))

\* uint64(id) and int64(num) keep the 64 bits
EncodeString(id_) == base32hexencode(id_)

DecodeString(s) ==
    LET r == base32hexdecode(s)
    IN  IF r.err # nil THEN [id |-> I64(0), err |-> r.err]
        ELSE [id |-> r.num, err |-> nil]

\* Generator.inspect of the TypeScript package: the BigInt is written and read
\* little-endian, and a negative raw value throws
inspect(subkeys, idVal) ==
    LET src   == PutUint64(idVal)
        dst   == decrypt(subkeys, [i \in 1..8 |-> 0], src).dst
        idRaw == Uint64(dst)
    IN  IF IsNeg64(idRaw)
        THEN [timestamp |-> I64(0), nodeID |-> 0, sequence |-> 0, err |-> ErrInvalidLease]
        ELSE [timestamp |-> Add64(Sar64(idRaw, RANDFLAKE_NODE_BITS + RANDFLAKE_SEQUENCE_BITS),
                                  RANDFLAKE_EPOCH_OFFSET),
              nodeID    |-> ToInt(And64(Sar64(idRaw, RANDFLAKE_SEQUENCE_BITS), I64(RANDFLAKE_MAX_NODE))),
              sequence  |-> ToInt(And64(idRaw, I64(RANDFLAKE_MAX_SEQUENCE))),
              err       |-> nil]

\* new Generator(nodeID, leaseStart, leaseEnd, secret) of the TypeScript
\* package: the error thrown and, when there is none, the fields of the Generator
Generator(nodeID_, leaseStart_, leaseEnd_, secret) ==
    LET none == [err |-> nil, made |-> FALSE]
    IN  IF Lt64(leaseEnd_, leaseStart_) THEN [none EXCEPT !.err = ErrInvalidLease]
        ELSE IF nodeID_ < 0 \/ nodeID_ > RANDFLAKE_MAX_NODE THEN [none EXCEPT !.err = ErrInvalidNode]
        ELSE IF Lt64(leaseStart_, RANDFLAKE_EPOCH_OFFSET) THEN [none EXCEPT !.err = ErrInvalidLease]
        ELSE IF Gt64(leaseEnd_, RANDFLAKE_MAX_TIMESTAMP) THEN [none EXCEPT !.err = ErrRandflakeDead]
        ELSE IF Len(secret) # 16 THEN [none EXCEPT !.err = ErrInvalidSecret]
        ELSE [err |-> nil, made |-> TRUE,
              leaseStart |-> leaseStart_, leaseEnd |-> leaseEnd_, nodeID |-> nodeID_,
              sequence |-> 0, rollover |-> leaseStart_,
              sbox |-> Sparx64(secret).subkeys]

\* updateLease with <= in its last test
updateLease_Le(this, leaseStart_, leaseEnd_) ==
    IF leaseStart_ # this.leaseStart \/ Lt64(leaseEnd_, leaseStart_)
       \/ Gt64(leaseEnd_, RANDFLAKE_MAX_TIMESTAMP)
    THEN [ok |-> FALSE, this |-> this]
    ELSE IF Le64(this.leaseEnd, leaseEnd_)
    THEN [ok |-> TRUE, this |-> [this EXCEPT !.leaseEnd = leaseEnd_]]
    ELSE [ok |-> FALSE, this |-> this]

\* updateLease of the TypeScript Generator this: the boolean returned and the
\* Generator afterwards
updateLease(this, leaseStart_, leaseEnd_) ==
    IF leaseStart_ # this.leaseStart THEN [ok |-> FALSE, this |-> this]
    ELSE IF Lt64(leaseEnd_, leaseStart_) THEN [ok |-> FALSE, this |-> this]
    ELSE IF Gt64(leaseEnd_, RANDFLAKE_MAX_TIMESTAMP) THEN [ok |-> FALSE, this |-> this]
    ELSE IF Lt64(this.leaseEnd, leaseEnd_)
    THEN [ok |-> TRUE, this |-> [this EXCEPT !.leaseEnd = leaseEnd_]]
    ELSE [ok |-> FALSE, this |-> this]

\* newRAW of the TypeScript Generator this when its timeSource returns now: the
\* error thrown or the BigInt returned (its low 64 bits), and the Generator
\* afterwards
newRAW(this, now) ==
    LET pack(seq) ==
            Or64(Or64(Shl64(Sub64(now, RANDFLAKE_EPOCH_OFFSET),
                            RANDFLAKE_NODE_BITS + RANDFLAKE_SEQUENCE_BITS),
                      Shl64(I64(this.nodeID), RANDFLAKE_SEQUENCE_BITS)),
                 I64(seq))
        sequence_ == this.sequence + 1
        counted == [this EXCEPT !.sequence = sequence_]
    IN  IF Lt64(now, this.leaseStart) THEN [err |-> ErrInvalidLease, raw |-> I64(0), this |-> this]
        ELSE IF Gt64(now, this.leaseEnd) THEN [err |-> ErrInvalidLease, raw |-> I64(0), this |-> this]
        ELSE IF sequence_ > RANDFLAKE_MAX_SEQUENCE
        THEN IF Gt64(now, this.rollover)
             THEN [err |-> nil, raw |-> pack(0),
                   this |-> [this EXCEPT !.rollover = now, !.sequence = 0]]
             ELSE IF Lt64(now, this.rollover)
             THEN [err |-> ErrConsistencyViolation, raw |-> I64(0), this |-> counted]
             ELSE [err |-> ErrResourceExhausted, raw |-> I64(0), this |-> counted]
        ELSE [err |-> nil, raw |-> pack(sequence_), this |-> counted]

\* generate: the BigInt is written and read little-endian
generate(this, now) ==
    LET r == newRAW(this, now)
    IN  IF r.err # nil THEN [err |-> r.err, id |-> I64(0), this |-> r.this]
        ELSE [err |-> nil,
              id |-> Uint64(encrypt(this.sbox, [i \in 1..8 |-> 0], PutUint64(r.raw)).dst),
              this |-> r.this]

(***************************************************************************)
(* Bounds of the model                                                     *)
(***************************************************************************)
\* callers sharing the generators
NThreads == 2
\* calls started in one behaviour
MaxCalls == 3
\* an initial state may have its sequence counter this far below its maximum
SeqSlack == 1
\* the clock returns leaseStart - 1 .. leaseStart + ClockSpan
ClockSpan == 2
\* cipher operations applied to one buffer
MaxOps == 2
\* Generate calls started by the callers that race for the rollover
MaxRaceCalls == 4
\* Generate calls started where every call is followed to its return
MaxLiveCalls == 2

Threads == 1..NThreads

(***************************************************************************)
(* State                                                                   *)
(***************************************************************************)
VARIABLES
    \* the fields of each Generator (a function of the generator's name)
    leaseStart, leaseEnd, nodeID, sequence, rollover, sbox,
    \* each caller: where it is in its call, its locals, what its last call returned
    pc, frame, ret,
    \* TimeSource: whether each generator's never runs backwards ("monotone") or
    \* may return anything ("any"), and the last reading it returned
    timeSource, clock,
    \* history: whether a reading was smaller than an earlier one
    backwards,
    \* history: the (timestamp, sequence) pairs issued, as runs [ts, lo, hi]
    issued,
    \* history: per timestamp, the identifiers issued and the Generate calls made
    issuedAt, requestedAt,
    \* history: the identifiers Generate returned, and those returned a second time
    returned, dups,
    \* history: the largest lease end asked of UpdateLease with valid arguments
    wanted,
    \* history: calls started
    ncalls,
    \* a Sparx64 instance (its language and subkeys), the 8-byte buffer it works on,
    \* history: the buffer's first contents and the operations applied to it
    cipher, buf, plain, trail

genvars == <<leaseStart, leaseEnd, nodeID, sequence, rollover, sbox, timeSource>>
histvars == <<clock, backwards, issued, issuedAt, requestedAt, returned, dups, wanted, ncalls>>
ciphervars == <<cipher, buf, plain, trail>>
vars == <<leaseStart, leaseEnd, nodeID, sequence, rollover, sbox, pc, frame, ret,
          timeSource, clock, backwards, issued, issuedAt, requestedAt, returned, dups, wanted, ncalls,
          cipher, buf, plain, trail>>

Gens == DOMAIN leaseStart

\* the clock readings tried for generator g
ClockVals(g) == {Add64(leaseStart[g], I64(d)) : d \in -1..ClockSpan}

NoFrame == [op |-> "none"]
NoRet == [op |-> "none"]
NoCipher == [lang |-> "none"]

(***************************************************************************)
(* Initial states: generators as NewGenerator leaves them, or as a run of  *)
(* sequential Generate calls leaves them                                   *)
(***************************************************************************)
\* the secret of TestInspectString
SecretKAT == <<223, 253, 96, 33, 187, 43, 213, 176, 175, 103, 98, 144, 128, 158, 195, 165>>

\* lease starts: the epoch, the last second whose raw value is non-negative, two
\* seconds before the maximum timestamp
LeaseStarts ==
    { RANDFLAKE_EPOCH_OFFSET,
      Add64(RANDFLAKE_EPOCH_OFFSET, Sub64(Shl64(I64(1), RANDFLAKE_TIMESTAMP_BITS - 1), I64(1))),
      Sub64(RANDFLAKE_MAX_TIMESTAMP, I64(2)) }

Run(ts, lo, hi) == [ts |-> ts, lo |-> lo, hi |-> hi]

\* the node ids of the initial generators
Nodes == {42, 43}

\* EncryptRAW tabulated, under SecretKAT, for raw values the initial generators
\* can return in MaxCalls calls: TLC then runs the cipher once for each
KATSubkeys == NewSparx64(SecretKAT).subkeys
TabulatedRAW ==
    { PackRAW(Add64(ls, I64(d)), n, c) :
        ls \in LeaseStarts, d \in 0..(ClockSpan + 2), n \in Nodes,
        c \in (0..(MaxCalls + 1)) \cup
              ((RANDFLAKE_MAX_SEQUENCE - SeqSlack)..RANDFLAKE_MAX_SEQUENCE) }
EncryptTable == [raw \in TabulatedRAW |-> EncryptRAW(KATSubkeys, raw)]

EncryptID(subkeys, id_) ==
    IF subkeys = KATSubkeys /\ id_ \in TabulatedRAW THEN EncryptTable[id_]
    ELSE EncryptRAW(subkeys, id_)

\* the counter, rollover, clock and history of a generator made with lease
\* [ls, le] that was not used yet
Fresh(ls, le) ==
    [sequence |-> 0, rollover |-> ls, clock |-> Sub64(ls, I64(1)),
     issued |-> {}, bursts |-> <<>>]

\* ... after k <= RANDFLAKE_MAX_SEQUENCE sequential Generate calls, all with the
\* clock at tb >= ls: they returned the sequence numbers 1..k
Burst1(ls, le, tb, k) ==
    [sequence |-> k, rollover |-> ls, clock |-> tb,
     issued |-> {Run(tb, 1, k)}, bursts |-> <<<<tb, k>>>>]

\* ... after RANDFLAKE_MAX_SEQUENCE calls with the clock at ls (sequence numbers
\* 1..RANDFLAKE_MAX_SEQUENCE), one call at r > ls (the counter overflows: rollover
\* becomes r, sequence number 0) and k >= 1 calls at tc >= r (1..k)
Burst2(ls, le, r, tc, k) ==
    [sequence |-> k, rollover |-> r, clock |-> tc,
     issued |-> {Run(ls, 1, RANDFLAKE_MAX_SEQUENCE), Run(r, 0, 0), Run(tc, 1, k)},
     bursts |-> <<<<ls, RANDFLAKE_MAX_SEQUENCE>>, <<r, 1>>, <<tc, k>>>>]

Uses(ls, le) ==
    LET hi == (RANDFLAKE_MAX_SEQUENCE - SeqSlack)..RANDFLAKE_MAX_SEQUENCE
        l1 == Add64(ls, I64(1))
    IN  {Fresh(ls, le)}
        \cup {Burst1(ls, le, tb, k) : tb \in {ls, l1}, k \in hi}
        \cup {Burst2(ls, le, l1, l1, k) : k \in hi}

\* the calls of a use that read the clock as v
RECURSIVE CountAt(_, _)
CountAt(bursts, v) ==
    IF bursts = <<>> THEN 0
    ELSE (IF Head(bursts)[1] = v THEN Head(bursts)[2] ELSE 0) + CountAt(Tail(bursts), v)

\* generators Gs, each made by NewGenerator(node[g], ls[g], ls[g] + 1, SecretKAT)
\* and then used as use[g] says; callers Ts, all idle
InitWith(Gs, Ts, node, ls, use, src) ==
    LET new(g) == NewGenerator(node[g], ls[g], Add64(ls[g], I64(1)), SecretKAT)
        vals(g) == {Add64(ls[g], I64(d)) : d \in -1..ClockSpan}
    IN  /\ \A g \in Gs : new(g).made
        /\ leaseStart = [g \in Gs |-> new(g).leaseStart]
        /\ leaseEnd = [g \in Gs |-> new(g).leaseEnd]
        /\ nodeID = [g \in Gs |-> new(g).nodeID]
        /\ sbox = [g \in Gs |-> new(g).sbox]
        /\ sequence = [g \in Gs |-> use[g].sequence]
        /\ rollover = [g \in Gs |-> use[g].rollover]
        /\ timeSource = [g \in Gs |-> src]
        /\ clock = [g \in Gs |-> use[g].clock]
        /\ backwards = [g \in Gs |-> FALSE]
        /\ issued = [g \in Gs |-> use[g].issued]
        /\ issuedAt = [g \in Gs |-> [v \in vals(g) |-> CountAt(use[g].bursts, v)]]
        /\ requestedAt = [g \in Gs |-> [v \in vals(g) |-> CountAt(use[g].bursts, v)]]
        /\ returned = [g \in Gs |-> {}]
        /\ dups = [g \in Gs |-> {}]
        /\ wanted = [g \in Gs |-> new(g).leaseEnd]
        /\ ncalls = 0
        /\ pc = [t \in Ts |-> "idle"]
        /\ frame = [t \in Ts |-> NoFrame]
        /\ ret = [t \in Ts |-> NoRet]

\* no Sparx64 instance on its own
InitNoCipher == cipher = NoCipher /\ buf = <<>> /\ plain = <<>> /\ trail = <<>>

(***************************************************************************)
(* Generate, step by step (one atomic access to shared state per step)     *)
(***************************************************************************)
\* line 132 and line 136: the clock reading is outside the lease
\* no check against leaseStart
BeforeLease_Off(now_, leaseStart_) == FALSE
BeforeLease(now_, leaseStart_) == Lt64(now_, leaseStart_)
\* a check that also rejects the last second of the lease
AfterLease_Ge(now_, leaseEnd_) == Ge64(now_, leaseEnd_)
AfterLease(now_, leaseEnd_) == Gt64(now_, leaseEnd_)

Covered(runs, ts, s) == \E r \in runs : r.ts = ts /\ r.lo <= s /\ s <= r.hi

\* Generate returns err
GenerateFails(t, err) ==
    /\ ret' = [ret EXCEPT ![t] = [op |-> "Generate", g |-> frame[t].g, err |-> err,
                                  id |-> I64(0), now |-> frame[t].now, sequence |-> 0,
                                  leSeen |-> frame[t].leSeen, nth |-> frame[t].nth]]
    /\ pc' = [pc EXCEPT ![t] = "idle"]
    /\ frame' = [frame EXCEPT ![t] = NoFrame]
    /\ UNCHANGED <<issued, issuedAt, returned, dups>>

\* newRAW returns the packed value for ctr, Generate encrypts and returns it
GenerateReturns(t, ctr) ==
    LET g   == frame[t].g
        now == frame[t].now
        id  == EncryptID(sbox[g], PackRAW(now, nodeID[g], ctr))
    IN  /\ ret' = [ret EXCEPT ![t] = [op |-> "Generate", g |-> g, err |-> nil,
                                      id |-> id, now |-> now, sequence |-> ctr,
                                      leSeen |-> frame[t].leSeen, nth |-> frame[t].nth]]
        /\ pc' = [pc EXCEPT ![t] = "idle"]
        /\ frame' = [frame EXCEPT ![t] = NoFrame]
        /\ issued' = [issued EXCEPT ![g] = @ \cup {Run(now, ctr, ctr)}]
        /\ issuedAt' = [issuedAt EXCEPT ![g][now] = @ + 1]
        /\ returned' = [returned EXCEPT ![g] = @ \cup {id}]
        /\ dups' = IF Covered(issued[g], now, ctr)
                   THEN [dups EXCEPT ![g] = @ \cup {id}] ELSE dups

\* a caller starts Generate on g, the max-th call of the behaviour at most
GenerateEnter(t, g, max) ==
    /\ pc[t] = "idle"
    /\ ncalls < max
    /\ ncalls' = ncalls + 1
    /\ pc' = [pc EXCEPT ![t] = "newRAW"]
    /\ frame' = [frame EXCEPT ![t] = [op |-> "Generate", g |-> g, first |-> TRUE]]
    /\ UNCHANGED <<ciphervars, genvars, ret, clock, backwards, issued, issuedAt, requestedAt,
                   returned, dups, wanted>>

GenerateCall(t, g) == GenerateEnter(t, g, MaxCalls)

\* lines 125-134: read the clock; fail when it is before leaseStart
newRAW_now(t) ==
    /\ pc[t] = "newRAW"
    /\ LET g == frame[t].g
       IN  \E v \in ClockVals(g) :
             /\ timeSource[g] = "monotone" => Ge64(v, clock[g])
             /\ clock' = [clock EXCEPT ![g] = v]
             /\ backwards' = [backwards EXCEPT ![g] = @ \/ Lt64(v, clock[g])]
             /\ requestedAt' = IF frame[t].first
                               THEN [requestedAt EXCEPT ![g][v] = @ + 1] ELSE requestedAt
             /\ LET f == [op |-> "Generate", g |-> g, first |-> FALSE, now |-> v,
                          leSeen |-> I64(0),
                          nth |-> IF frame[t].first THEN requestedAt[g][v] + 1 ELSE frame[t].nth]
               IN  IF BeforeLease(v, leaseStart[g])
                   THEN /\ ret' = [ret EXCEPT ![t] =
                                     [op |-> "Generate", g |-> g, err |-> ErrInvalidLease,
                                      id |-> I64(0), now |-> v, sequence |-> 0,
                                      leSeen |-> f.leSeen, nth |-> f.nth]]
                        /\ pc' = [pc EXCEPT ![t] = "idle"]
                        /\ frame' = [frame EXCEPT ![t] = NoFrame]
                   ELSE /\ pc' = [pc EXCEPT ![t] = "lease"]
                        /\ frame' = [frame EXCEPT ![t] = f]
                        /\ ret' = ret
    /\ UNCHANGED <<ciphervars, genvars, issued, issuedAt, returned, dups, wanted, ncalls>>

\* a lease check that counts the call before it rejects it
newRAW_lease_Counted(t) ==
    /\ pc[t] = "lease"
    /\ LET g == frame[t].g
           f == [frame[t] EXCEPT !.leSeen = leaseEnd[g]]
       IN  /\ sequence' = [sequence EXCEPT ![g] = @ + 1]
           /\ IF AfterLease(frame[t].now, leaseEnd[g])
              THEN /\ ret' = [ret EXCEPT ![t] =
                                [op |-> "Generate", g |-> g, err |-> ErrInvalidLease,
                                 id |-> I64(0), now |-> f.now, sequence |-> 0,
                                 leSeen |-> f.leSeen, nth |-> f.nth]]
                   /\ pc' = [pc EXCEPT ![t] = "idle"]
                   /\ frame' = [frame EXCEPT ![t] = NoFrame]
              ELSE /\ pc' = [pc EXCEPT ![t] = "add"]
                   /\ frame' = [frame EXCEPT ![t] = f]
                   /\ ret' = ret
    /\ UNCHANGED <<ciphervars, leaseStart, leaseEnd, nodeID, rollover, sbox, timeSource, histvars>>

\* lines 136-138: load leaseEnd; fail when the clock is after it
newRAW_lease(t) ==
    /\ pc[t] = "lease"
    /\ LET g == frame[t].g
           f == [frame[t] EXCEPT !.leSeen = leaseEnd[g]]
       IN  IF AfterLease(frame[t].now, leaseEnd[g])
           THEN /\ ret' = [ret EXCEPT ![t] =
                             [op |-> "Generate", g |-> g, err |-> ErrInvalidLease,
                              id |-> I64(0), now |-> f.now, sequence |-> 0,
                              leSeen |-> f.leSeen, nth |-> f.nth]]
                /\ pc' = [pc EXCEPT ![t] = "idle"]
                /\ frame' = [frame EXCEPT ![t] = NoFrame]
           ELSE /\ pc' = [pc EXCEPT ![t] = "add"]
                /\ frame' = [frame EXCEPT ![t] = f]
                /\ ret' = ret
    /\ UNCHANGED <<ciphervars, genvars, histvars>>

\* an increment that uses the value the counter had before it
newRAW_add_Post(t) ==
    /\ pc[t] = "add"
    /\ LET g   == frame[t].g
           ctr == sequence[g]
       IN  /\ sequence' = [sequence EXCEPT ![g] = ctr + 1]
           /\ IF ctr > RANDFLAKE_MAX_SEQUENCE
              THEN /\ pc' = [pc EXCEPT ![t] = "rollover"]
                   /\ UNCHANGED <<frame, ret, issued, issuedAt, returned, dups>>
              ELSE GenerateReturns(t, ctr)
    /\ UNCHANGED <<ciphervars, leaseStart, leaseEnd, nodeID, rollover, sbox, timeSource,
                   clock, backwards, requestedAt, wanted, ncalls>>

\* lines 140-141, 157-163: add 1 to sequence; return unless it passed the maximum
newRAW_add(t) ==
    /\ pc[t] = "add"
    /\ LET g   == frame[t].g
           ctr == sequence[g] + 1
       IN  /\ sequence' = [sequence EXCEPT ![g] = ctr]
           /\ IF ctr > RANDFLAKE_MAX_SEQUENCE
              THEN /\ pc' = [pc EXCEPT ![t] = "rollover"]
                   /\ UNCHANGED <<frame, ret, issued, issuedAt, returned, dups>>
              ELSE GenerateReturns(t, ctr)
    /\ UNCHANGED <<ciphervars, leaseStart, leaseEnd, nodeID, rollover, sbox, timeSource,
                   clock, backwards, requestedAt, wanted, ncalls>>

\* an overflow branch that gives the two errors the other way round
newRAW_rollover_Swapped(t) ==
    /\ pc[t] = "rollover"
    /\ LET g == frame[t].g
           last_rollover == rollover[g]
       IN  IF Gt64(frame[t].now, last_rollover)
           THEN /\ pc' = [pc EXCEPT ![t] = "cas"]
                /\ frame' = [frame EXCEPT ![t] =
                               [op |-> "Generate", g |-> g, first |-> FALSE,
                                now |-> frame[t].now, leSeen |-> frame[t].leSeen,
                                nth |-> frame[t].nth, last_rollover |-> last_rollover]]
                /\ UNCHANGED <<ret, issued, issuedAt, returned, dups>>
           ELSE IF Lt64(frame[t].now, last_rollover)
           THEN GenerateFails(t, ErrResourceExhausted)
           ELSE GenerateFails(t, ErrConsistencyViolation)
    /\ UNCHANGED <<ciphervars, genvars, clock, backwards, requestedAt, wanted, ncalls>>

\* lines 142-143, 149-154: load rollover and compare the clock reading with it
newRAW_rollover(t) ==
    /\ pc[t] = "rollover"
    /\ LET g == frame[t].g
           last_rollover == rollover[g]
       IN  IF Gt64(frame[t].now, last_rollover)
           THEN /\ pc' = [pc EXCEPT ![t] = "cas"]
                /\ frame' = [frame EXCEPT ![t] =
                               [op |-> "Generate", g |-> g, first |-> FALSE,
                                now |-> frame[t].now, leSeen |-> frame[t].leSeen,
                                nth |-> frame[t].nth, last_rollover |-> last_rollover]]
                /\ UNCHANGED <<ret, issued, issuedAt, returned, dups>>
           ELSE IF Lt64(frame[t].now, last_rollover)
           THEN GenerateFails(t, ErrConsistencyViolation)
           ELSE GenerateFails(t, ErrResourceExhausted)
    /\ UNCHANGED <<ciphervars, genvars, clock, backwards, requestedAt, wanted, ncalls>>

\* a plain store of the clock reading in place of the compare-and-swap
newRAW_cas_Store(t) ==
    /\ pc[t] = "cas"
    /\ rollover' = [rollover EXCEPT ![frame[t].g] = frame[t].now]
    /\ pc' = [pc EXCEPT ![t] = "store"]
    /\ frame' = frame
    /\ UNCHANGED <<ciphervars, leaseStart, leaseEnd, nodeID, sequence, sbox, timeSource, ret, histvars>>

\* a compare-and-swap that fails whatever rollover holds
newRAW_cas_Weak(t) ==
    /\ pc[t] = "cas"
    /\ rollover' = rollover
    /\ pc' = [pc EXCEPT ![t] = "newRAW"]
    /\ frame' = [frame EXCEPT ![t] =
                   [op |-> "Generate", g |-> frame[t].g, first |-> FALSE, nth |-> frame[t].nth]]
    /\ UNCHANGED <<ciphervars, leaseStart, leaseEnd, nodeID, sequence, sbox, timeSource, ret, histvars>>

\* lines 144-146: compare-and-swap rollover; start over when it fails
newRAW_cas(t) ==
    /\ pc[t] = "cas"
    /\ LET g == frame[t].g
       IN  IF rollover[g] = frame[t].last_rollover
           THEN /\ rollover' = [rollover EXCEPT ![g] = frame[t].now]
                /\ pc' = [pc EXCEPT ![t] = "store"]
                /\ frame' = frame
           ELSE /\ rollover' = rollover
                /\ pc' = [pc EXCEPT ![t] = "newRAW"]
                /\ frame' = [frame EXCEPT ![t] =
                               [op |-> "Generate", g |-> g, first |-> FALSE,
                                nth |-> frame[t].nth]]
    /\ UNCHANGED <<ciphervars, leaseStart, leaseEnd, nodeID, sequence, sbox, timeSource, ret, histvars>>

\* lines 147-148, 157-163: store 0 in sequence and return sequence number 0
newRAW_store(t) ==
    /\ pc[t] = "store"
    /\ sequence' = [sequence EXCEPT ![frame[t].g] = 0]
    /\ GenerateReturns(t, 0)
    /\ UNCHANGED <<ciphervars, leaseStart, leaseEnd, nodeID, rollover, sbox, timeSource,
                   clock, backwards, requestedAt, wanted, ncalls>>

Generate(t) ==
    \/ newRAW_now(t)
    \/ newRAW_lease(t)
    \/ newRAW_add(t)
    \/ newRAW_rollover(t)
    \/ newRAW_cas(t)
    \/ newRAW_store(t)

(***************************************************************************)
(* UpdateLease: the argument checks and the load in one step, then the     *)
(* compare-and-swap                                                        *)
(***************************************************************************)
\* argument checks without the one against the maximum timestamp
UpdateLeaseArgsOK_NoMax(ls, leaseStart_, leaseEnd_) ==
    leaseStart_ = ls /\ ~Lt64(leaseEnd_, leaseStart_)

\* checks that leave the comparison with the generator's leaseStart out
UpdateLeaseArgsOK_AnyStart(ls, leaseStart_, leaseEnd_) ==
    ~Lt64(leaseEnd_, leaseStart_) /\ ~Gt64(leaseEnd_, RANDFLAKE_MAX_TIMESTAMP)

\* lines 102-112: the arguments pass the three checks
UpdateLeaseArgsOK(ls, leaseStart_, leaseEnd_) ==
    /\ leaseStart_ = ls
    /\ ~Lt64(leaseEnd_, leaseStart_)
    /\ ~Gt64(leaseEnd_, RANDFLAKE_MAX_TIMESTAMP)

\* a check that also accepts the stored lease end
UpdateLeaseExtends_Le(current, leaseEnd_) == Le64(current, leaseEnd_)
\* line 115: the loaded lease end is to be replaced
UpdateLeaseExtends(current, leaseEnd_) == Lt64(current, leaseEnd_)

Max64(a, b) == IF Lt64(a, b) THEN b ELSE a

\* the (leaseStart, leaseEnd) arguments tried on generator g
UpdateLeaseArgs(g) ==
    LET at(d) == Add64(leaseStart[g], I64(d))
    IN  {<<at(0), at(d)>> : d \in {-1, 1, 2, 3}} \cup {<<at(1), at(3)>>}

UpdateLeaseReturns(t, g, leaseStart_, leaseEnd_, ok, before, after, solo) ==
    /\ ret' = [ret EXCEPT ![t] = [op |-> "UpdateLease", g |-> g, ok |-> ok,
                                  leaseStart |-> leaseStart_, leaseEnd |-> leaseEnd_,
                                  before |-> before, after |-> after, solo |-> solo]]
    /\ pc' = [pc EXCEPT ![t] = "idle"]

\* lines 101-115
UpdateLease_load(t, g, leaseStart_, leaseEnd_) ==
    /\ pc[t] = "idle"
    /\ ncalls < MaxCalls
    /\ ncalls' = ncalls + 1
    /\ LET current == leaseEnd[g]
           others  == {u \in DOMAIN pc : pc[u] = "lease_cas" /\ frame[u].g = g}
       IN  IF UpdateLeaseArgsOK(leaseStart[g], leaseStart_, leaseEnd_)
           THEN /\ wanted' = [wanted EXCEPT ![g] = Max64(@, leaseEnd_)]
                /\ IF UpdateLeaseExtends(current, leaseEnd_)
                   THEN /\ pc' = [pc EXCEPT ![t] = "lease_cas"]
                        /\ frame' = [u \in DOMAIN frame |->
                                       IF u = t
                                       THEN [op |-> "UpdateLease", g |-> g,
                                             leaseStart |-> leaseStart_, leaseEnd |-> leaseEnd_,
                                             current |-> current, solo |-> others = {}]
                                       ELSE IF u \in others
                                       THEN [frame[u] EXCEPT !.solo = FALSE]
                                       ELSE frame[u]]
                        /\ ret' = ret
                   ELSE /\ UpdateLeaseReturns(t, g, leaseStart_, leaseEnd_, FALSE,
                                              current, current, others = {})
                        /\ frame' = frame
           ELSE /\ UpdateLeaseReturns(t, g, leaseStart_, leaseEnd_, FALSE,
                                      current, current, others = {})
                /\ UNCHANGED <<frame, wanted>>
    /\ UNCHANGED <<ciphervars, genvars, clock, backwards, issued, issuedAt, requestedAt, returned, dups>>

\* an UpdateLease whose successful swap also resets the sequence counter
UpdateLease_cas_Reset(t) ==
    /\ pc[t] = "lease_cas"
    /\ LET g == frame[t].g
           f == frame[t]
       IN  IF leaseEnd[g] = f.current
           THEN /\ leaseEnd' = [leaseEnd EXCEPT ![g] = f.leaseEnd]
                /\ sequence' = [sequence EXCEPT ![g] = 0]
                /\ UpdateLeaseReturns(t, g, f.leaseStart, f.leaseEnd, TRUE,
                                      f.current, f.leaseEnd, f.solo)
           ELSE /\ leaseEnd' = leaseEnd
                /\ sequence' = sequence
                /\ UpdateLeaseReturns(t, g, f.leaseStart, f.leaseEnd, FALSE,
                                      f.current, leaseEnd[g], f.solo)
    /\ frame' = [frame EXCEPT ![t] = NoFrame]
    /\ UNCHANGED <<ciphervars, leaseStart, nodeID, rollover, sbox, timeSource, histvars>>

\* lines 116-120
UpdateLease_cas(t) ==
    /\ pc[t] = "lease_cas"
    /\ LET g == frame[t].g
           f == frame[t]
       IN  IF leaseEnd[g] = f.current
           THEN /\ leaseEnd' = [leaseEnd EXCEPT ![g] = f.leaseEnd]
                /\ UpdateLeaseReturns(t, g, f.leaseStart, f.leaseEnd, TRUE,
                                      f.current, f.leaseEnd, f.solo)
           ELSE /\ leaseEnd' = leaseEnd
                /\ UpdateLeaseReturns(t, g, f.leaseStart, f.leaseEnd, FALSE,
                                      f.current, leaseEnd[g], f.solo)
    /\ frame' = [frame EXCEPT ![t] = NoFrame]
    /\ UNCHANGED <<ciphervars, leaseStart, nodeID, sequence, rollover, sbox, timeSource, histvars>>

UpdateLease(t) ==
    \/ \E g \in Gens : \E a \in UpdateLeaseArgs(g) : UpdateLease_load(t, g, a[1], a[2])
    \/ UpdateLease_cas(t)

(***************************************************************************)
(* Inspect, of an identifier some Generate returned                        *)
(***************************************************************************)
InspectCall(t, g, u) ==
    /\ pc[t] = "idle"
    /\ ncalls < MaxCalls
    /\ ncalls' = ncalls + 1
    /\ ret[u].op = "Generate" /\ ret[u].err = nil
    /\ LET r == Inspect(sbox[g], ret[u].id)
       IN  ret' = [ret EXCEPT ![t] =
                     [op |-> "Inspect", g |-> g, id |-> ret[u].id,
                      timestamp |-> r.timestamp, nodeID |-> r.nodeID,
                      sequence |-> r.sequence, err |-> r.err,
                      from |-> [now |-> ret[u].now, nodeID |-> nodeID[ret[u].g],
                                sequence |-> ret[u].sequence]]]
    /\ UNCHANGED <<ciphervars, genvars, pc, frame, clock, backwards, issued, issuedAt, requestedAt,
                   returned, dups, wanted>>

(***************************************************************************)
(* NewGenerator, called by a caller: the generator it returns is added to  *)
(* the generators of the state                                             *)
(***************************************************************************)
\* the arguments tried: node ids and lease bounds on both sides of each limit,
\* secrets of 15, 16 and 17 bytes
NodeArgs == {-1, 0, RANDFLAKE_MAX_NODE, RANDFLAKE_MAX_NODE + 1}
LeaseArgs ==
    { Sub64(RANDFLAKE_EPOCH_OFFSET, I64(1)), RANDFLAKE_EPOCH_OFFSET,
      RANDFLAKE_MAX_TIMESTAMP, Add64(RANDFLAKE_MAX_TIMESTAMP, I64(1)) }
SecretArgs == {SubSeq(SecretKAT, 1, 15), SecretKAT, Append(SecretKAT, 0)}

NewGeneratorCall(t, g, nodeID_, leaseStart_, leaseEnd_, secret) ==
    /\ pc[t] = "idle"
    /\ g \notin Gens
    /\ ncalls < MaxCalls
    /\ ncalls' = ncalls + 1
    /\ LET new  == NewGenerator(nodeID_, leaseStart_, leaseEnd_, secret)
           vals == {Add64(leaseStart_, I64(d)) : d \in -1..ClockSpan}
           zero == [v \in vals |-> 0]
       IN  /\ ret' = [ret EXCEPT ![t] =
                        [op |-> "NewGenerator", g |-> g, err |-> new.err, made |-> new.made,
                         nodeID |-> nodeID_, leaseStart |-> leaseStart_,
                         leaseEnd |-> leaseEnd_, secret |-> secret]]
           /\ IF new.made
              THEN /\ leaseStart' = (g :> new.leaseStart) @@ leaseStart
                   /\ leaseEnd' = (g :> new.leaseEnd) @@ leaseEnd
                   /\ nodeID' = (g :> new.nodeID) @@ nodeID
                   /\ sequence' = (g :> new.sequence) @@ sequence
                   /\ rollover' = (g :> new.rollover) @@ rollover
                   /\ sbox' = (g :> new.sbox) @@ sbox
                   /\ timeSource' = (g :> "monotone") @@ timeSource
                   /\ clock' = (g :> Sub64(leaseStart_, I64(1))) @@ clock
                   /\ backwards' = (g :> FALSE) @@ backwards
                   /\ issued' = (g :> {}) @@ issued
                   /\ issuedAt' = (g :> zero) @@ issuedAt
                   /\ requestedAt' = (g :> zero) @@ requestedAt
                   /\ returned' = (g :> {}) @@ returned
                   /\ dups' = (g :> {}) @@ dups
                   /\ wanted' = (g :> new.leaseEnd) @@ wanted
              ELSE UNCHANGED <<genvars, clock, backwards, issued, issuedAt, requestedAt,
                               returned, dups, wanted>>
    /\ UNCHANGED <<ciphervars, pc, frame>>

\* new Generator(...) of the TypeScript package, called by a caller
GeneratorCall(t, g, nodeID_, leaseStart_, leaseEnd_, secret) ==
    /\ pc[t] = "idle"
    /\ g \notin Gens
    /\ ncalls < MaxCalls
    /\ ncalls' = ncalls + 1
    /\ LET new  == Generator(nodeID_, leaseStart_, leaseEnd_, secret)
           vals == {Add64(leaseStart_, I64(d)) : d \in -1..ClockSpan}
           zero == [v \in vals |-> 0]
       IN  /\ ret' = [ret EXCEPT ![t] =
                        [op |-> "Generator", g |-> g, err |-> new.err, made |-> new.made,
                         nodeID |-> nodeID_, leaseStart |-> leaseStart_,
                         leaseEnd |-> leaseEnd_, secret |-> secret]]
           /\ IF new.made
              THEN /\ leaseStart' = (g :> new.leaseStart) @@ leaseStart
                   /\ leaseEnd' = (g :> new.leaseEnd) @@ leaseEnd
                   /\ nodeID' = (g :> new.nodeID) @@ nodeID
                   /\ sequence' = (g :> new.sequence) @@ sequence
                   /\ rollover' = (g :> new.rollover) @@ rollover
                   /\ sbox' = (g :> new.sbox) @@ sbox
                   /\ timeSource' = (g :> "monotone") @@ timeSource
                   /\ clock' = (g :> Sub64(leaseStart_, I64(1))) @@ clock
                   /\ backwards' = (g :> FALSE) @@ backwards
                   /\ issued' = (g :> {}) @@ issued
                   /\ issuedAt' = (g :> zero) @@ issuedAt
                   /\ requestedAt' = (g :> zero) @@ requestedAt
                   /\ returned' = (g :> {}) @@ returned
                   /\ dups' = (g :> {}) @@ dups
                   /\ wanted' = (g :> new.leaseEnd) @@ wanted
              ELSE UNCHANGED <<genvars, clock, backwards, issued, issuedAt, requestedAt,
                               returned, dups, wanted>>
    /\ UNCHANGED <<ciphervars, pc, frame>>

(***************************************************************************)
(* The cipher on its own: one Sparx64 instance, Go or TypeScript, and one  *)
(* 8-byte buffer that is encrypted and decrypted in place                  *)
(***************************************************************************)
\* the key, plaintext and ciphertext of TestSparx64
KeyKAT == <<0, 17, 34, 51, 68, 85, 102, 119, 136, 153, 170, 187, 204, 221, 238, 255>>
PlainKAT == <<1, 35, 69, 103, 137, 171, 205, 239>>
CipherKAT == <<43, 190, 241, 82, 1, 245, 95, 152>>

\* the keys and blocks tried
CipherKeys == {KeyKAT, SecretKAT, [i \in 1..16 |-> 0], [i \in 1..16 |-> 255]}
CipherBlocks ==
    {PlainKAT, CipherKAT, [i \in 1..8 |-> 0], [i \in 1..8 |-> 255]}
    \cup {[i \in 1..8 |-> IF i = j THEN 128 ELSE 0] : j \in 1..8}

InitCipher ==
    /\ InitWith({}, {}, <<>>, <<>>, <<>>, "monotone")
    /\ \E lang \in {"go", "ts"} : \E key \in CipherKeys :
         cipher = [lang |-> lang, key |-> key,
                   subkeys |-> IF lang = "go" THEN NewSparx64(key).subkeys
                               ELSE Sparx64(key).subkeys]
    /\ plain \in CipherBlocks
    /\ buf = plain
    /\ trail = <<>>

EncryptCall ==
    /\ Len(trail) < MaxOps
    /\ LET out == IF cipher.lang = "go" THEN Encrypt(cipher.subkeys, buf, buf).dst
                  ELSE encrypt(cipher.subkeys, buf, buf).dst
       IN  /\ buf' = out
           /\ trail' = Append(trail, [op |-> "Encrypt", out |-> out])
    /\ UNCHANGED <<genvars, histvars, pc, frame, ret, cipher, plain>>

DecryptCall ==
    /\ Len(trail) < MaxOps
    /\ LET out == IF cipher.lang = "go" THEN Decrypt(cipher.subkeys, buf, buf).dst
                  ELSE decrypt(cipher.subkeys, buf, buf).dst
       IN  /\ buf' = out
           /\ trail' = Append(trail, [op |-> "Decrypt", out |-> out])
    /\ UNCHANGED <<genvars, histvars, pc, frame, ret, cipher, plain>>

DestroyCall ==
    /\ Len(trail) < MaxOps
    /\ cipher' = [cipher EXCEPT !.subkeys = IF cipher.lang = "go" THEN Destroy(@) ELSE destroy(@)]
    /\ trail' = Append(trail, [op |-> "Destroy", out |-> buf])
    /\ UNCHANGED <<genvars, histvars, pc, frame, ret, buf, plain>>

(***************************************************************************)
(* The cipher given keys and buffers of any size                           *)
(***************************************************************************)
\* keys of 0, 15, 16 and 17 bytes; sources and destinations of 0, 7, 8 and 9
SizeKeys == {SubSeq(KeyKAT \o <<0>>, 1, n) : n \in {0, 15, 16, 17}}
SizeSrcs == {SubSeq(PlainKAT \o <<1>>, 1, n) : n \in {0, 7, 8, 9}}
SizeDsts == {[i \in 1..n |-> 170] : n \in {0, 7, 8, 9}}

\* NewSparx64(key) or new Sparx64(key): the instance replaces the one held
\* unless the constructor fails
NewSparx64Call(lang, key) ==
    /\ Len(trail) < MaxOps
    /\ LET new    == IF lang = "go" THEN NewSparx64(key) ELSE Sparx64(key)
           failed == IF lang = "go" THEN new.panic ELSE new.throws
       IN  /\ cipher' = IF failed THEN cipher
                        ELSE [lang |-> lang, key |-> key, subkeys |-> new.subkeys]
           /\ trail' = Append(trail, [op |-> "New", lang |-> lang, key |-> key,
                                      failed |-> failed])
    /\ UNCHANGED <<genvars, histvars, pc, frame, ret, buf, plain>>

\* Encrypt(dst, src) or Decrypt(dst, src) on the instance held, dst and src
\* not the same buffer
SizedCall(op, dst, src) ==
    /\ cipher.lang \in {"go", "ts"}
    /\ Len(trail) < MaxOps
    /\ LET r == IF cipher.lang = "go"
                THEN IF op = "Encrypt" THEN Encrypt(cipher.subkeys, dst, src)
                     ELSE Decrypt(cipher.subkeys, dst, src)
                ELSE IF op = "Encrypt" THEN encrypt(cipher.subkeys, dst, src)
                     ELSE decrypt(cipher.subkeys, dst, src)
           failed == IF cipher.lang = "go" THEN r.panic ELSE r.throws
       IN  /\ buf' = r.dst
           /\ plain' = src
           /\ trail' = Append(trail, [op |-> op, lang |-> cipher.lang, src |-> src, dst |-> dst,
                                      failed |-> failed, out |-> r.dst])
    /\ UNCHANGED <<genvars, histvars, pc, frame, ret, cipher>>

EncryptSized(dst, src) == SizedCall("Encrypt", dst, src)
DecryptSized(dst, src) == SizedCall("Decrypt", dst, src)

(***************************************************************************)
(* The components of the cipher on their own: a block of four 16-bit words *)
(* that A and A_inv (on its first two words), L_2 and L_2_inv change       *)
(***************************************************************************)
\* the words tried for l and r, and the other two words of the block
CompWords == {0, 1, 291, 32768, 43981, 65535}
CompBlocks ==
    {<<l, r>> \o hi : l \in CompWords, r \in CompWords,
                      hi \in {<<0, 0>>, <<65535, 1>>, <<17767, 52719>>}}

InitComp ==
    /\ InitWith({}, {}, <<>>, <<>>, <<>>, "monotone")
    /\ \E lang \in {"go", "ts"} : cipher = [lang |-> lang]
    /\ plain \in CompBlocks
    /\ buf = plain
    /\ trail = <<>>

\* buf becomes out by the component op
CompCall(op, out) ==
    /\ Len(trail) < MaxOps
    /\ buf' = out
    /\ trail' = Append(trail, [op |-> op, out |-> out])
    /\ UNCHANGED <<genvars, histvars, pc, frame, ret, cipher, plain>>

A_Call ==
    CompCall("A", (IF cipher.lang = "go" THEN _A(buf[1], buf[2]) ELSE A(buf[1], buf[2]))
                  \o <<buf[3], buf[4]>>)

A_inv_Call ==
    CompCall("A_inv", (IF cipher.lang = "go" THEN _A_inv(buf[1], buf[2]) ELSE A_inv(buf[1], buf[2]))
                      \o <<buf[3], buf[4]>>)

L_2_Call == CompCall("L_2", IF cipher.lang = "go" THEN _L_2(buf) ELSE L_2(buf))

L_2_inv_Call == CompCall("L_2_inv", IF cipher.lang = "go" THEN _L_2_inv(buf) ELSE L_2_inv(buf))

(***************************************************************************)
(* The string form: EncodeString, DecodeString, and Inspect / InspectString *)
(* of an identifier the caller holds                                        *)
(***************************************************************************)
\* the identifier and the string of TestInspectString
IDKAT == <<41489, 39109, 3592, 16323>>
StrKAT == Str(<<"3", "v", "g", "o", "e", "1", "2", "c", "c", "b", "8", "g", "h">>)

\* 10^k as a uint64, as TestBase32HexEncode lists them
RECURSIVE Pow10(_)
Pow10(k) ==
    IF k = 0 THEN I64(1)
    ELSE LET p == Pow10(k - 1) IN Add64(Shl64(p, 3), Shl64(p, 1))

\* the values encoded: 2^k and 2^k - 1 where the numeral gets longer, their
\* complements (both signs), the values of the tests
CodecIDs ==
    LET pow == {Shl64(I64(1), k) : k \in {j \in 0..63 : j % 5 \in {0, 4}}}
        low == pow \cup {Sub64(v, I64(1)) : v \in pow}
    IN  low \cup {Not64(v) : v \in low} \cup {Pow10(k) : k \in 0..18} \cup {IDKAT}

ToUpper(s) == [i \in 1..Len(s) |-> IF s[i] >= Rune["a"] /\ s[i] <= Rune["z"] THEN s[i] - 32 ELSE s[i]]

\* s with the rune c put before its k-th rune
Insert(s, k, c) == SubSeq(s, 1, k - 1) \o <<c>> \o SubSeq(s, k, Len(s))

\* runes outside the alphabet: the neighbours of its ranges, '=', and runes
\* beyond ASCII (U+00E9, and U+FFFD that range yields for a byte that is not UTF-8)
OtherRunes ==
    {Rune[c] : c \in {"=", "!", " ", "-", "/", ":", "@", "_", "w", "z", "W", "Z"}} \cup {233, 65533}

\* the strings decoded: numerals EncodeString makes, in lower and upper case,
\* with leading zeros, too long for 64 bits, empty, and with a rune outside the
\* alphabet at any place
DecodeArgs ==
    LET made  == {EncodeString(id) : id \in CodecIDs}
        bases == {StrKAT, Str(<<"0">>), Str(<<"a", "V">>), <<>>}
    IN  made \cup {ToUpper(s) : s \in made}
        \cup {Str(<<"0", "0", "v">>), StrKAT \o Str(<<"0">>), Str(<<"g">>) \o StrKAT,
              Str(<<"a", "V">>)}
        \cup UNION {{Insert(s, k, c) : k \in {1, (Len(s) + 3) \div 2, Len(s) + 1}, c \in OtherRunes} : s \in bases}

\* EncodeString and DecodeString, tabulated for the arguments of the model
EncodeTable == [id \in CodecIDs |-> EncodeString(id)]
DecodeTable == [s \in DecodeArgs |-> DecodeString(s)]

EncodeStringCall(t, id_) ==
    /\ pc[t] = "idle"
    /\ ret' = [ret EXCEPT ![t] = [op |-> "EncodeString", id |-> id_, s |-> EncodeTable[id_]]]
    /\ UNCHANGED <<ciphervars, genvars, histvars, pc, frame>>

DecodeStringCall(t, s) ==
    /\ pc[t] = "idle"
    /\ LET r == DecodeTable[s]
       IN  ret' = [ret EXCEPT ![t] = [op |-> "DecodeString", s |-> s, id |-> r.id, err |-> r.err]]
    /\ UNCHANGED <<ciphervars, genvars, histvars, pc, frame>>

\* the Sparx64 of a TypeScript Generator made with the secret of the model
ts_sbox == Sparx64(SecretKAT).subkeys

\* identifiers and strings inspected
InspectIDs == {IDKAT, I64(0), I64(-1), Not64(IDKAT)}
InspectStrs ==
    {StrKAT, ToUpper(StrKAT), Str(<<"0">>), Insert(StrKAT, 14, Rune["="]),
     Insert(StrKAT, 5, Rune["!"])}

\* Inspect and inspect, tabulated for the identifiers inspected
InspectTable == [id \in InspectIDs |-> Inspect(KATSubkeys, id)]
ts_InspectTable == [id \in InspectIDs |-> inspect(ts_sbox, id)]

InspectID(subkeys, id_) ==
    IF subkeys = KATSubkeys /\ id_ \in InspectIDs THEN InspectTable[id_]
    ELSE Inspect(subkeys, id_)

\* an InspectString that inspects whatever base32hexdecode read before it failed
InspectString_Unchecked(subkeys, id_) == InspectID(subkeys, base32hexdecode(id_).num)

InspectString(subkeys, id_) ==
    LET r == base32hexdecode(id_)
    IN  IF r.err # nil
        THEN [timestamp |-> I64(0), nodeID |-> 0, sequence |-> 0, err |-> r.err]
        ELSE InspectID(subkeys, r.num)

\* Inspect of any int64, by a Go generator or by a TypeScript generator with
\* the same node id, lease and secret
InspectIDCall(t, g, lang, id_) ==
    /\ pc[t] = "idle"
    /\ LET r == IF lang = "go" THEN InspectID(sbox[g], id_) ELSE ts_InspectTable[id_]
       IN  ret' = [ret EXCEPT ![t] =
                     [op |-> "InspectID", g |-> g, lang |-> lang, id |-> id_,
                      timestamp |-> r.timestamp, nodeID |-> r.nodeID,
                      sequence |-> r.sequence, err |-> r.err]]
    /\ UNCHANGED <<ciphervars, genvars, histvars, pc, frame>>

InspectStringCall(t, g, s) ==
    /\ pc[t] = "idle"
    /\ LET r == InspectString(sbox[g], s)
       IN  ret' = [ret EXCEPT ![t] =
                     [op |-> "InspectString", g |-> g, s |-> s,
                      timestamp |-> r.timestamp, nodeID |-> r.nodeID,
                      sequence |-> r.sequence, err |-> r.err]]
    /\ UNCHANGED <<ciphervars, genvars, histvars, pc, frame>>

\* GenerateString, line 182: it calls Generate
GenerateString_call(t, g) ==
    /\ ret[t].op # "Generate"
    /\ GenerateEnter(t, g, MaxCalls)

\* GenerateString, lines 183-186: Generate has returned to it
GenerateString_ret(t) ==
    /\ pc[t] = "idle"
    /\ ret[t].op = "Generate"
    /\ ret' = [ret EXCEPT ![t] =
                 [op |-> "GenerateString", g |-> ret[t].g, err |-> ret[t].err,
                  s |-> IF ret[t].err # nil THEN <<>> ELSE base32hexencode(ret[t].id),
                  id |-> ret[t].id, now |-> ret[t].now, sequence |-> ret[t].sequence]]
    /\ UNCHANGED <<ciphervars, genvars, histvars, pc, frame>>

\* InspectString of the string GenerateString returned last
InspectString_back(t, g) ==
    /\ ret[t].op = "GenerateString" /\ ret[t].err = nil
    /\ InspectStringCall(t, g, ret[t].s)

(***************************************************************************)
(* A TypeScript Generator that is given the calls and the clock readings   *)
(* of a Go Generator, each call right after the Go call has returned       *)
(***************************************************************************)
\* the fields of generator g
This(g) ==
    [leaseStart |-> leaseStart[g], leaseEnd |-> leaseEnd[g], nodeID |-> nodeID[g],
     sequence |-> sequence[g], rollover |-> rollover[g], sbox |-> sbox[g]]

\* the last call of t on the Go Generator was made on the TypeScript one as well
Mirrored(t) == pc[t] = "idle" /\ ret[t].op \notin {"Generate", "UpdateLease", "InspectID"}

\* generate() on g with the clock reading of the Generate call that t made last
generateCall(t, g) ==
    /\ pc[t] = "idle"
    /\ ret[t].op = "Generate"
    /\ LET r == generate(This(g), ret[t].now)
       IN  /\ sequence' = [sequence EXCEPT ![g] = r.this.sequence]
           /\ rollover' = [rollover EXCEPT ![g] = r.this.rollover]
           /\ ret' = [ret EXCEPT ![t] = [op |-> "generate", g |-> g, go |-> ret[t],
                                         err |-> r.err, id |-> r.id, now |-> ret[t].now]]
    /\ UNCHANGED <<ciphervars, leaseStart, leaseEnd, nodeID, sbox, timeSource, histvars, pc, frame>>

\* updateLease() on g with the arguments of the UpdateLease call that t made last
updateLeaseCall(t, g) ==
    /\ pc[t] = "idle"
    /\ ret[t].op = "UpdateLease"
    /\ LET r == updateLease(This(g), ret[t].leaseStart, ret[t].leaseEnd)
       IN  /\ leaseEnd' = [leaseEnd EXCEPT ![g] = r.this.leaseEnd]
           /\ ret' = [ret EXCEPT ![t] = [op |-> "updateLease", g |-> g, go |-> ret[t],
                                         ok |-> r.ok]]
    /\ UNCHANGED <<ciphervars, leaseStart, nodeID, sequence, rollover, sbox, timeSource, histvars,
                   pc, frame>>

\* inspect() by g of the identifier that t had inspected by the Go Generator
inspectCall(t, g) ==
    /\ pc[t] = "idle"
    /\ ret[t].op = "InspectID"
    /\ LET r == inspect(sbox[g], ret[t].id)
       IN  ret' = [ret EXCEPT ![t] = [op |-> "inspect", g |-> g, go |-> ret[t],
                                      timestamp |-> r.timestamp, nodeID |-> r.nodeID,
                                      sequence |-> r.sequence, err |-> r.err]]
    /\ UNCHANGED <<ciphervars, genvars, histvars, pc, frame>>

(***************************************************************************)
(* Specifications                                                          *)
(***************************************************************************)
\* one generator shared by NThreads callers, its TimeSource never running backwards
Init ==
    /\ InitNoCipher
    /\ \E ls \in {RANDFLAKE_EPOCH_OFFSET, Sub64(RANDFLAKE_MAX_TIMESTAMP, I64(2))} :
         \E u \in Uses(ls, Add64(ls, I64(1))) :
           InitWith({1}, Threads, [g \in {1} |-> 42], [g \in {1} |-> ls], [g \in {1} |-> u],
                    "monotone")

Next ==
    \E t \in Threads :
        \/ \E g \in Gens : GenerateCall(t, g)
        \/ Generate(t)
        \/ UpdateLease(t)

Spec == Init /\ [][Next]_vars

\* one generator and one caller, with any TimeSource
InitSeq ==
    /\ InitNoCipher
    /\ \E ls \in LeaseStarts : \E u \in Uses(ls, Add64(ls, I64(1))) :
         \E src \in {"monotone", "any"} :
           InitWith({1}, {1}, [g \in {1} |-> 42], [g \in {1} |-> ls], [g \in {1} |-> u], src)

NextSeq ==
    \/ \E g \in Gens : GenerateCall(1, g)
    \/ Generate(1)
    \/ UpdateLease(1)
    \/ \E g \in Gens : InspectCall(1, g, 1)

SpecSeq == InitSeq /\ [][NextSeq]_vars

\* two generators with the same secret, used by one caller: the same node id or
\* not, the same lease or leases that do not overlap until one is extended; the
\* first generator is new or has used up the sequence numbers of one second
Init2 ==
    LET ls == RANDFLAKE_EPOCH_OFFSET
        l1 == Add64(ls, I64(1))
    IN  /\ InitNoCipher
        /\ \E n2 \in Nodes : \E d \in {0, 2} :
             \E u \in {Fresh(ls, l1), Burst1(ls, l1, l1, RANDFLAKE_MAX_SEQUENCE)} :
               InitWith({1, 2}, {1}, (1 :> 42) @@ (2 :> n2),
                        (1 :> ls) @@ (2 :> Add64(ls, I64(d))),
                        (1 :> u) @@ (2 :> Fresh(Add64(ls, I64(d)), Add64(ls, I64(d + 1)))),
                        "monotone")

Next2 ==
    \/ \E g \in Gens : GenerateCall(1, g)
    \/ Generate(1)
    \/ UpdateLease(1)

Spec2 == Init2 /\ [][Next2]_vars

\* no generator yet: one caller constructs one
InitNew == InitNoCipher /\ InitWith({}, {1}, <<>>, <<>>, <<>>, "monotone")

NextNew ==
    \E n \in NodeArgs : \E ls \in LeaseArgs : \E le \in LeaseArgs : \E s \in SecretArgs :
         \/ NewGeneratorCall(1, 1, n, ls, le, s)
         \/ GeneratorCall(1, 1, n, ls, le, s)

SpecNew == InitNew /\ [][NextNew]_vars

\* one generator whose lease is three seconds long and which has used up the
\* sequence numbers 1..RANDFLAKE_MAX_SEQUENCE in its first second, shared by
\* NThreads callers of Generate; its TimeSource never runs backwards
InitRace ==
    LET ls  == RANDFLAKE_EPOCH_OFFSET
        new == NewGenerator(42, ls, Add64(ls, I64(2)), SecretKAT)
        use == Burst1(ls, new.leaseEnd, ls, RANDFLAKE_MAX_SEQUENCE)
        at  == [v \in {Add64(ls, I64(d)) : d \in -1..ClockSpan} |-> CountAt(use.bursts, v)]
    IN  /\ InitNoCipher
        /\ leaseStart = <<new.leaseStart>> /\ leaseEnd = <<new.leaseEnd>>
        /\ nodeID = <<new.nodeID>> /\ sbox = <<new.sbox>>
        /\ sequence = <<use.sequence>> /\ rollover = <<use.rollover>>
        /\ timeSource = <<"monotone">> /\ clock = <<use.clock>> /\ backwards = <<FALSE>>
        /\ issued = <<use.issued>> /\ issuedAt = <<at>> /\ requestedAt = <<at>>
        /\ returned = <<{}>> /\ dups = <<{}>> /\ wanted = <<new.leaseEnd>>
        /\ ncalls = 0
        /\ pc = [t \in Threads |-> "idle"]
        /\ frame = [t \in Threads |-> NoFrame]
        /\ ret = [t \in Threads |-> NoRet]

NextRace ==
    \E t \in Threads :
        \/ \E g \in Gens : GenerateEnter(t, g, MaxRaceCalls)
        \/ Generate(t)

SpecRace == InitRace /\ [][NextRace]_vars

\* two new generators with the secret of the model, of different node ids and
\* leases, and one caller of the string functions and of Inspect
InitStr ==
    LET ls == RANDFLAKE_EPOCH_OFFSET
        l2 == Sub64(RANDFLAKE_MAX_TIMESTAMP, I64(2))
    IN  /\ InitNoCipher
        /\ InitWith({1, 2}, {1}, (1 :> 1) @@ (2 :> 42), (1 :> ls) @@ (2 :> l2),
                    (1 :> Fresh(ls, Add64(ls, I64(1)))) @@ (2 :> Fresh(l2, Add64(l2, I64(1)))),
                    "monotone")

NextStr ==
    \/ \E id \in CodecIDs : EncodeStringCall(1, id)
    \/ \E s \in DecodeArgs : DecodeStringCall(1, s)
    \/ \E g \in Gens : \E lang \in {"go", "ts"} : \E id \in InspectIDs : InspectIDCall(1, g, lang, id)
    \/ \E g \in Gens : \E s \in InspectStrs : InspectStringCall(1, g, s)

SpecStr == InitStr /\ [][NextStr]_vars

\* one generator with the sequence numbers of its first second used up, one
\* caller that uses every operation of the package, and a Sparx64
\* instance of its own made with the same secret
FrameIDs == {IDKAT, I64(0)}
FrameStrs == {StrKAT, Insert(StrKAT, 14, Rune["="])}

InitFrame ==
    LET ls == RANDFLAKE_EPOCH_OFFSET
        le == Add64(ls, I64(1))
    IN  /\ InitWith({1}, {1}, [g \in {1} |-> 42], [g \in {1} |-> ls],
                    [g \in {1} |-> Burst1(ls, le, ls, RANDFLAKE_MAX_SEQUENCE)], "monotone")
        /\ cipher = [lang |-> "go", key |-> SecretKAT, subkeys |-> NewSparx64(SecretKAT).subkeys]
        /\ plain = PlainKAT
        /\ buf = plain
        /\ trail = <<>>

NextFrame ==
    \/ \E g \in Gens : GenerateCall(1, g)
    \/ Generate(1)
    \/ UpdateLease(1)
    \/ \E g \in Gens : InspectCall(1, g, 1)
    \/ \E g \in Gens : \E lang \in {"go", "ts"} : \E id \in FrameIDs : InspectIDCall(1, g, lang, id)
    \/ \E g \in Gens : \E s \in FrameStrs : InspectStringCall(1, g, s)
    \/ \E id \in FrameIDs : EncodeStringCall(1, id)
    \/ \E s \in FrameStrs : DecodeStringCall(1, s)
    \/ EncryptCall
    \/ DecryptCall

SpecFrame == InitFrame /\ [][NextFrame]_vars

\* one generator and one caller of GenerateString and InspectString, with any
\* TimeSource
NextGenStr ==
    \/ \E g \in Gens : GenerateString_call(1, g)
    \/ Generate(1)
    \/ GenerateString_ret(1)
    \/ \E g \in Gens : InspectString_back(1, g)
    \/ \E g \in Gens : \E s \in {StrKAT, Insert(StrKAT, 5, Rune["!"])} :
           ret[1].op # "Generate" /\ InspectStringCall(1, g, s)

SpecGenStr == InitSeq /\ [][NextGenStr]_vars

\* a Go Generator (1) and a TypeScript Generator (2) made with the same
\* arguments, new or after the same 131071 calls in one second, and one caller
\* that makes each call on the one and then on the other; any TimeSource
InitEq ==
    /\ InitNoCipher
    /\ \E ls \in LeaseStarts : \E src \in {"monotone", "any"} :
         LET le == Add64(ls, I64(1))
         IN  /\ \E u \in {Fresh(ls, le), Burst1(ls, le, ls, RANDFLAKE_MAX_SEQUENCE)} :
                   InitWith({1, 2}, {1}, [g \in {1, 2} |-> 42], [g \in {1, 2} |-> ls],
                            [g \in {1, 2} |-> u], src)
             /\ LET ts == Generator(42, ls, le, SecretKAT)
                IN  /\ ts.made
                    /\ leaseStart[2] = ts.leaseStart /\ leaseEnd[2] = ts.leaseEnd
                    /\ nodeID[2] = ts.nodeID /\ sbox[2] = ts.sbox

NextEq ==
    \/ Mirrored(1) /\ GenerateCall(1, 1)
    \/ Generate(1)
    \/ generateCall(1, 2)
    \/ Mirrored(1) /\ \E a \in UpdateLeaseArgs(1) : UpdateLease_load(1, 1, a[1], a[2])
    \/ UpdateLease_cas(1)
    \/ updateLeaseCall(1, 2)
    \/ /\ ret[1].op = "generate" /\ ret[1].go.err = nil
       /\ InspectIDCall(1, 1, "go", ret[1].go.id)
    \/ inspectCall(1, 2)

SpecEq == InitEq /\ [][NextEq]_vars

\* no instance and no generator yet: one caller constructs ciphers with keys
\* of any size, encrypts and decrypts with buffers of any size, and constructs
\* generators with secrets of any size
NextSize ==
    \/ \E lang \in {"go", "ts"} : \E key \in SizeKeys : NewSparx64Call(lang, key)
    \/ \E dst \in SizeDsts : \E src \in SizeSrcs : EncryptSized(dst, src)
    \/ \E dst \in SizeDsts : \E src \in SizeSrcs : DecryptSized(dst, src)
    \/ \E le \in {RANDFLAKE_MAX_TIMESTAMP, Add64(RANDFLAKE_MAX_TIMESTAMP, I64(1))} :
         \E s \in SecretArgs :
           \/ NewGeneratorCall(1, 1, 0, RANDFLAKE_EPOCH_OFFSET, le, s)
           \/ GeneratorCall(1, 1, 0, RANDFLAKE_EPOCH_OFFSET, le, s)

SpecSize == InitNew /\ [][NextSize]_vars

\* the callers that race for the rollover with MaxLiveCalls calls, each of them
\* scheduled again and again while its Generate call has a step to take
NextLive ==
    \E t \in Threads :
        \/ \E g \in Gens : GenerateEnter(t, g, MaxLiveCalls)
        \/ Generate(t)

SpecLive == InitRace /\ [][NextLive]_vars /\ \A t \in Threads : WF_vars(Generate(t))

\* a Sparx64 instance that encrypts, decrypts and is destroyed
NextDestroy == EncryptCall \/ DecryptCall \/ DestroyCall

SpecDestroy == InitCipher /\ [][NextDestroy]_vars

\* the components of the cipher applied to a block, at most MaxOps times
NextComp == A_Call \/ A_inv_Call \/ L_2_Call \/ L_2_inv_Call

SpecComp == InitComp /\ [][NextComp]_vars

\* the cipher on its own
NextCipher == EncryptCall \/ DecryptCall

SpecCipher == InitCipher /\ [][NextCipher]_vars

(***************************************************************************)
(* Properties                                                              *)
(***************************************************************************)
IsGenerate(r) == r.op = "Generate"
IsUpdateLease(r) == r.op = "UpdateLease"

\* C1: on one generator whose clock never ran backwards, no identifier is
\* returned by two Generate calls
C1_NoIdentifierTwice ==
    \A g \in Gens : ~backwards[g] => dups[g] = {}

\* C3: Inspect of an identifier that Generate returned gives, without error, the
\* clock reading, the node id and the sequence number Generate used
C3_InspectRoundTrip ==
    \A t \in DOMAIN ret :
        ret[t].op = "Inspect" =>
            /\ ret[t].err = nil
            /\ ret[t].timestamp = ret[t].from.now
            /\ ret[t].nodeID = ret[t].from.nodeID
            /\ ret[t].sequence = ret[t].from.sequence

\* a generator made by NewGenerator on which one call was made
UsedOnce(g) == ncalls = 1 /\ \A r \in issued[g] : r.hi <= 1

\* C7: Generate returns ErrInvalidLease exactly when its clock reading is before
\* leaseStart or after the leaseEnd it loaded; the first call on a new generator
\* succeeds with the clock at leaseStart or at leaseEnd and fails with
\* ErrInvalidLease one second outside
C7_LeaseBoundary ==
    \A t \in DOMAIN ret :
        IsGenerate(ret[t]) =>
            LET r == ret[t]
                g == r.g
            IN  /\ r.err = ErrInvalidLease <=>
                       (Lt64(r.now, leaseStart[g]) \/ Gt64(r.now, r.leSeen))
                /\ UsedOnce(g) =>
                       /\ r.now \in {leaseStart[g], leaseEnd[g]} => r.err = nil
                       /\ r.now \in {Sub64(leaseStart[g], I64(1)), Add64(leaseEnd[g], I64(1))}
                              => r.err = ErrInvalidLease

\* C7 happens: the first call on a new generator succeeded with the clock at
\* leaseEnd, later than leaseStart
C7_Witness ==
    \E t \in DOMAIN ret :
        /\ IsGenerate(ret[t]) /\ UsedOnce(ret[t].g) /\ ret[t].err = nil
        /\ ret[t].now = leaseEnd[ret[t].g] /\ ret[t].now # leaseStart[ret[t].g]

\* every Generate call made on g so far read the clock as v
ClockFixedAt(g, v) == \A u \in DOMAIN requestedAt[g] : u # v => requestedAt[g][u] = 0

\* C8: with the clock of a generator fixed at one second inside the lease, the
\* Generate calls after the 131072nd fail with ErrResourceExhausted, and no more
\* than 131072 identifiers are issued with that timestamp
C8_PerSecondCapacity ==
    \A g \in Gens : \A v \in DOMAIN issuedAt[g] :
        ClockFixedAt(g, v) =>
            /\ issuedAt[g][v] <= RANDFLAKE_MAX_SEQUENCE + 1
            /\ \A t \in DOMAIN ret :
                   (/\ IsGenerate(ret[t]) /\ ret[t].g = g
                    /\ ret[t].nth > RANDFLAKE_MAX_SEQUENCE + 1
                    /\ ret[t].err # ErrInvalidLease)
                       => ret[t].err = ErrResourceExhausted

\* C9: an UpdateLease that ran with no other UpdateLease in flight returned true
\* exactly when start was leaseStart, start <= end <= RANDFLAKE_MAX_TIMESTAMP and
\* end was greater than the stored leaseEnd; the stored leaseEnd then was end, and
\* was unchanged when it returned false
C9_UpdateLeaseResult ==
    \A t \in DOMAIN ret :
        (IsUpdateLease(ret[t]) /\ ret[t].solo) =>
            LET r == ret[t]
            IN  /\ r.ok <=> /\ r.leaseStart = leaseStart[r.g]
                            /\ Le64(r.leaseStart, r.leaseEnd)
                            /\ Le64(r.leaseEnd, RANDFLAKE_MAX_TIMESTAMP)
                            /\ Gt64(r.leaseEnd, r.before)
                /\ r.ok => r.after = r.leaseEnd
                /\ ~r.ok => r.after = r.before

\* C9: ... and no step of UpdateLease changes sequence or rollover
C9_UpdateLease ==
    /\ []C9_UpdateLeaseResult
    /\ [][(\E t \in DOMAIN pc : UpdateLease(t))
              => (sequence' = sequence /\ rollover' = rollover)]_vars

\* C9 happens: UpdateLease, alone, returned true, and returned false for an end
\* that was not greater than the stored one
C9_Witness ==
    /\ \E t \in DOMAIN ret :
           IsUpdateLease(ret[t]) /\ ret[t].solo /\ ret[t].ok /\ leaseEnd[ret[t].g] = ret[t].leaseEnd
    /\ \E t \in DOMAIN ret :
           /\ IsUpdateLease(ret[t]) /\ ret[t].solo /\ ~ret[t].ok
           /\ ret[t].leaseStart = leaseStart[ret[t].g] /\ ret[t].leaseEnd = ret[t].before

\* C10: once every UpdateLease has returned, the stored leaseEnd is the largest of
\* the first leaseEnd and the ends requested with valid arguments, and an
\* UpdateLease with valid arguments returned false only if the stored leaseEnd
\* was not smaller than its end when it returned
C10_NoLostExtension ==
    /\ (\A t \in DOMAIN pc : pc[t] # "lease_cas") =>
           \A g \in Gens : leaseEnd[g] = wanted[g]
    /\ \A t \in DOMAIN ret :
           (/\ IsUpdateLease(ret[t]) /\ ~ret[t].ok
            /\ UpdateLeaseArgsOK(leaseStart[ret[t].g], ret[t].leaseStart, ret[t].leaseEnd))
               => Ge64(ret[t].after, ret[t].leaseEnd)

\* the lease windows of two generators have no second in common
WindowsApart(g, h) == Lt64(leaseEnd[g], leaseStart[h]) \/ Lt64(leaseEnd[h], leaseStart[g])

\* C2: two generators with the same secret whose node ids differ, or whose lease
\* windows (as extended by UpdateLease) have no second in common, returned no
\* identifier in common; with equal node ids and such windows they issued no
\* timestamp in common, every timestamp issued lying in the generator's window
C2_DistinctAcrossGenerators ==
    /\ \A g \in Gens : \A h \in Gens \ {g} :
           (sbox[g] = sbox[h] /\ (nodeID[g] # nodeID[h] \/ WindowsApart(g, h))) =>
               /\ returned[g] \cap returned[h] = {}
               /\ nodeID[g] = nodeID[h] =>
                      {r.ts : r \in issued[g]} \cap {r.ts : r \in issued[h]} = {}
    /\ \A g \in Gens : \A r \in issued[g] :
           Le64(leaseStart[g], r.ts) /\ Le64(r.ts, leaseEnd[g])

\* C2 happens: two generators with the same node id and lease windows apart, and
\* two with different node ids and the same window, each returned an identifier
C2_Witness ==
    \E g \in Gens : \E h \in Gens \ {g} :
        /\ returned[g] # {} /\ returned[h] # {}
        /\ \/ nodeID[g] = nodeID[h] /\ WindowsApart(g, h)
           \/ nodeID[g] # nodeID[h] /\ leaseStart[g] = leaseStart[h]
                 /\ \E r \in issued[g] : r \in issued[h]

\* C6: NewGenerator returns no generator and ErrInvalidNode, ErrInvalidLease,
\* ErrRandflakeDead or ErrInvalidSecret when, the other arguments being valid, the
\* node id is outside 0..131071, leaseEnd < leaseStart or leaseStart is before the
\* epoch, leaseEnd is after the maximum timestamp, the secret is not 16 bytes long;
\* it returns a generator and no error exactly when none of these holds
C6_ConstructionValidation ==
    \A t \in DOMAIN ret :
        ret[t].op = "NewGenerator" =>
            LET r         == ret[t]
                badNode   == r.nodeID < 0 \/ r.nodeID > 131071
                badOrder  == Lt64(r.leaseEnd, r.leaseStart)
                badStart  == Lt64(r.leaseStart, RANDFLAKE_EPOCH_OFFSET)
                dead      == Gt64(r.leaseEnd, RANDFLAKE_MAX_TIMESTAMP)
                badSecret == Len(r.secret) # 16
                only(c)   == c /\ Cardinality({i \in 1..5 :
                                   <<badNode, badOrder, badStart, dead, badSecret>>[i]}) = 1
            IN  /\ only(badNode) => r.err = ErrInvalidNode
                /\ only(badOrder) => r.err = ErrInvalidLease
                /\ only(badStart) => r.err = ErrInvalidLease
                /\ only(dead) => r.err = ErrRandflakeDead
                /\ only(badSecret) => r.err = ErrInvalidSecret
                /\ r.made <=> ~(badNode \/ badOrder \/ badStart \/ dead \/ badSecret)
                /\ r.made <=> r.err = nil
                /\ r.made <=> r.g \in Gens
                /\ r.made => /\ nodeID[r.g] = r.nodeID /\ leaseStart[r.g] = r.leaseStart
                             /\ leaseEnd[r.g] = r.leaseEnd

\* C6 happens: NewGenerator refused the node id 131072, its other arguments valid
C6_Witness ==
    \E t \in DOMAIN ret :
        /\ ret[t].op = "NewGenerator" /\ ret[t].err = ErrInvalidNode /\ Gens = {}
        /\ ret[t].nodeID = 131072 /\ Len(ret[t].secret) = 16
        /\ ret[t].leaseStart = RANDFLAKE_EPOCH_OFFSET
        /\ ret[t].leaseEnd = RANDFLAKE_MAX_TIMESTAMP

Ops(tr) == [i \in 1..Len(tr) |-> tr[i].op]

\* C4: a block that was encrypted and then decrypted, or decrypted and then
\* encrypted, under one key is the block it was at first
C4_CipherRoundTrip ==
    Ops(trail) \in {<<"Encrypt", "Decrypt">>, <<"Decrypt", "Encrypt">>} => buf = plain

\* C4 happens: a block was changed by Encrypt and restored by Decrypt
C4_Witness ==
    /\ Ops(trail) = <<"Encrypt", "Decrypt">>
    /\ trail[1].out # plain
    /\ buf = plain

\* C5: under the key 00112233445566778899aabbccddeeff both ciphers encrypt the
\* block 0123456789abcdef to 2bbef15201f55f98 and decrypt that to the block
C5_KnownAnswer ==
    (cipher.lang \in {"go", "ts"} /\ cipher.key = KeyKAT) =>
        /\ (plain = PlainKAT /\ Len(trail) >= 1 /\ trail[1].op = "Encrypt")
               => trail[1].out = CipherKAT
        /\ (plain = PlainKAT /\ Ops(trail) = <<"Encrypt", "Decrypt">>) => buf = PlainKAT
        /\ (plain = CipherKAT /\ Len(trail) >= 1 /\ trail[1].op = "Decrypt")
               => trail[1].out = PlainKAT

\* C5 happens: the TypeScript cipher encrypted the block to 2bbef15201f55f98
C5_Witness ==
    /\ cipher.lang = "ts" /\ cipher.key = KeyKAT /\ plain = PlainKAT
    /\ Ops(trail) = <<"Encrypt">> /\ buf = CipherKAT

\* C11: the stored leaseEnd never decreases from one state to the next, and an
\* UpdateLease whose start is not the generator's leaseStart returns false with
\* the stored leaseEnd as it was
C11_LeaseEndMonotone ==
    /\ [][\A g \in Gens : Le64(leaseEnd[g], leaseEnd'[g])]_vars
    /\ [](\A t \in DOMAIN ret :
            (IsUpdateLease(ret[t]) /\ ret[t].leaseStart # leaseStart[ret[t].g]) =>
                ~ret[t].ok /\ ret[t].after = ret[t].before)

\* C11 happens: the lease was extended and an UpdateLease with another start,
\* asking for a later end still, returned false
C11_Witness ==
    \E t \in DOMAIN ret : \E u \in DOMAIN ret :
        /\ IsUpdateLease(ret[t]) /\ ret[t].leaseStart # leaseStart[ret[t].g] /\ ~ret[t].ok
        /\ Gt64(ret[t].leaseEnd, leaseEnd[ret[t].g])
        /\ IsUpdateLease(ret[u]) /\ ret[u].ok /\ ret[u].g = ret[t].g

\* no second in which more than 131072 Generate calls read the clock of g
WithinCapacity(g) ==
    \A v \in DOMAIN requestedAt[g] : requestedAt[g][v] <= RANDFLAKE_MAX_SEQUENCE + 1

\* C12: on a generator shared by concurrent callers whose clock never ran
\* backwards and was read by at most 131072 Generate calls in any one second, no
\* identifier is returned by two Generate calls
C12_ConcurrentUniqueness ==
    \A g \in Gens : (~backwards[g] /\ WithinCapacity(g)) => dups[g] = {}

\* C13: the string EncodeString made decodes to the identifier it was made of,
\* without error, also for negative identifiers; 0 encodes as "0";
\* 4594531474933654033 encodes as "3vgoe12ccb8gh", which decodes to it
C13_CodecRoundTrip ==
    \A t \in DOMAIN ret :
        /\ ret[t].op = "EncodeString" =>
             /\ DecodeString(ret[t].s) = [id |-> ret[t].id, err |-> nil]
             /\ (ret[t].id = I64(0) => ret[t].s = Str(<<"0">>))
             /\ (ret[t].id = IDKAT => ret[t].s = StrKAT)
        /\ (ret[t].op = "DecodeString" /\ ret[t].s = StrKAT) =>
             ret[t].id = IDKAT /\ ret[t].err = nil

\* C13 happens: a negative identifier was encoded, in 13 symbols
C13_Witness ==
    \E t \in DOMAIN ret :
        ret[t].op = "EncodeString" /\ IsNeg64(ret[t].id) /\ Len(ret[t].s) = 13

\* the 32 symbols 0-9, a-v, and A-V
InAlphabet(c) ==
    \/ c >= Rune["0"] /\ c <= Rune["9"]
    \/ c >= Rune["a"] /\ c <= Rune["v"]
    \/ c >= Rune["A"] /\ c <= Rune["V"]

\* C14: DecodeString gives the same result for a string and for its upper-case
\* form, and InvalidID for every string with a rune outside the alphabet
C14_DecodeRejects ==
    \A t \in DOMAIN ret :
        ret[t].op = "DecodeString" =>
            /\ DecodeString(ToUpper(ret[t].s)) = [id |-> ret[t].id, err |-> ret[t].err]
            /\ (\E i \in 1..Len(ret[t].s) : ~InAlphabet(ret[t].s[i])) => ret[t].err = ErrInvalidID

\* strconv.FormatUint(n, 32): the radix-32 numeral of n, most significant digit first
RECURSIVE FormatUint32(_)
FormatUint32(n) ==
    LET d == ToInt(And64(n, I64(31)))
        c == IF d < 10 THEN Rune["0"] + d ELSE Rune["a"] + (d - 10)
    IN  IF LtU64(n, I64(32)) THEN <<c>> ELSE FormatUint32(Shr64(n, 5)) \o <<c>>

\* C15: EncodeString makes the standard radix-32 numeral of the unsigned value:
\* 1 to 13 symbols of 0-9a-v, no padding, no leading "0" unless the value is 0
C15_CanonicalEncoding ==
    \A t \in DOMAIN ret :
        ret[t].op = "EncodeString" =>
            /\ ret[t].s = FormatUint32(ret[t].id)
            /\ Len(ret[t].s) \in 1..13
            /\ \A i \in 1..Len(ret[t].s) :
                 InAlphabet(ret[t].s[i]) /\ ~(ret[t].s[i] >= Rune["A"] /\ ret[t].s[i] <= Rune["V"])
            /\ (ret[t].s[1] = Rune["0"] => ret[t].id = I64(0))

\* C15 happens: a value of more than one symbol whose numeral has "0" symbols
\* after the first was encoded
C15_Witness ==
    \E t \in DOMAIN ret :
        /\ ret[t].op = "EncodeString" /\ Len(ret[t].s) > 1
        /\ \E i \in 2..Len(ret[t].s) : ret[t].s[i] = Rune["0"]

\* timestamp 1733706297, node id 42, sequence 1
IsKnownAnswer(r) ==
    r.err = nil /\ r.timestamp = I64(1733706297) /\ r.nodeID = 42 /\ r.sequence = 1

\* C16: with the secret dffd6021bb2bd5b0af676290809ec3a5, Inspect of
\* 4594531474933654033 (Go and TypeScript) and InspectString of "3vgoe12ccb8gh"
\* return timestamp 1733706297, node id 42, sequence 1, whatever generator inspects
C16_KnownAnswerInspection ==
    \A t \in DOMAIN ret :
        /\ (ret[t].op = "InspectID" /\ ret[t].id = IDKAT) => IsKnownAnswer(ret[t])
        /\ (ret[t].op = "InspectString" /\ ret[t].s = StrKAT) => IsKnownAnswer(ret[t])

\* C16 happens: a generator whose node id is not 42 and whose lease does not
\* hold second 1733706297 inspected the string
C16_Witness ==
    \E t \in DOMAIN ret :
        /\ ret[t].op = "InspectString" /\ ret[t].s = StrKAT
        /\ nodeID[ret[t].g] # 42
        /\ Lt64(leaseEnd[ret[t].g], I64(1733706297))

\* the steps of Generate by t up to its lease checks: the clock reading, then
\* the load of leaseEnd
C17_Checks(t) ==
    LET g == frame[t].g
        rejected(now_) == /\ pc'[t] = "idle" /\ IsGenerate(ret'[t]) /\ ret'[t].g = g
                          /\ ret'[t].err = ErrInvalidLease /\ ret'[t].now = now_
    IN  /\ (pc[t] = "newRAW" /\ pc'[t] # "newRAW") =>
              /\ sequence' = sequence /\ rollover' = rollover /\ leaseEnd' = leaseEnd
              /\ \/ pc'[t] = "lease" /\ Ge64(frame'[t].now, leaseStart[g])
                 \/ rejected(clock'[g]) /\ Lt64(clock'[g], leaseStart[g])
        /\ (pc[t] = "lease" /\ pc'[t] # "lease") =>
              /\ sequence' = sequence /\ rollover' = rollover /\ leaseEnd' = leaseEnd
              /\ IF Gt64(frame[t].now, leaseEnd[g]) THEN rejected(frame[t].now)
                 ELSE pc'[t] = "add"

\* C17: a Generate call whose clock reading is before leaseStart or after the
\* stored leaseEnd returns InvalidLease, and the steps it has taken until then
\* (the reading and the load of leaseEnd, the only ones before the sequence
\* counter is incremented) leave the sequence counter, the rollover timestamp
\* and the lease end as they were
C17_InvalidLeaseNoMutation == [][\A t \in DOMAIN pc : C17_Checks(t)]_vars

\* C17 happens: a generator that has issued identifiers rejected a call whose
\* clock reading was after the stored leaseEnd
C17_Witness ==
    \E t \in DOMAIN ret :
        /\ IsGenerate(ret[t]) /\ ret[t].err = ErrInvalidLease
        /\ Gt64(ret[t].now, leaseEnd[ret[t].g])
        /\ sequence[ret[t].g] > 0

\* the steps of Generate by the caller t from the increment of the sequence
\* counter on
C18_Branch(t) ==
    LET g   == frame[t].g
        now == frame[t].now
        fails(err) == /\ pc'[t] = "idle" /\ IsGenerate(ret'[t]) /\ ret'[t].err = err
                      /\ rollover' = rollover
    IN  /\ (pc[t] = "add" /\ pc'[t] # "add") =>
              (pc'[t] = "rollover" <=> sequence[g] + 1 > RANDFLAKE_MAX_SEQUENCE)
        /\ (pc[t] = "rollover" /\ pc'[t] # "rollover") =>
              IF Gt64(now, rollover[g]) THEN pc'[t] = "cas"
              ELSE IF now = rollover[g] THEN fails(ErrResourceExhausted)
              ELSE fails(ErrConsistencyViolation)
        /\ (pc[t] = "cas" /\ pc'[t] # "cas") =>
              pc'[t] = "store" /\ rollover'[g] = now
        /\ (pc[t] = "store" /\ pc'[t] # "store") =>
              /\ rollover'[g] = now /\ sequence'[g] = 0
              /\ pc'[t] = "idle" /\ IsGenerate(ret'[t]) /\ ret'[t].err = nil
              /\ ret'[t].sequence = 0 /\ ret'[t].now = now

\* C18: with one sequential caller, a Generate call whose increment takes the
\* sequence counter over 131071 sets rollover to now, the counter to 0 and
\* returns sequence 0 when now > rollover; fails with ResourceExhausted when
\* now = rollover and with ConsistencyViolation when now < rollover, rollover
\* being left as it was; when the call has returned sequence 0 the counter is 0
\* and rollover is its clock reading
C18_ThreeWayBranch ==
    /\ [][\A t \in DOMAIN pc : C18_Branch(t)]_vars
    /\ [](\A t \in DOMAIN ret :
            (pc[t] = "idle" /\ IsGenerate(ret[t]) /\ ret[t].err = nil /\ ret[t].sequence = 0) =>
                sequence[ret[t].g] = 0 /\ rollover[ret[t].g] = ret[t].now)

\* C18 happens: the clock was set back and the counter overflowed
C18_Witness ==
    \E t \in DOMAIN ret :
        IsGenerate(ret[t]) /\ ret[t].err = ErrConsistencyViolation
        /\ Lt64(ret[t].now, rollover[ret[t].g])

\* C19: with one sequential caller and a clock that never ran backwards, a
\* Generate call returns ResourceExhausted only when sequence 0 (and so every
\* sequence value) was issued with the timestamp of its clock reading and more
\* than 131072 identifiers were requested in that second
C19_ExhaustedMeansFull ==
    \A t \in DOMAIN ret :
        (IsGenerate(ret[t]) /\ ret[t].err = ErrResourceExhausted /\ ~backwards[ret[t].g]) =>
            /\ Covered(issued[ret[t].g], ret[t].now, 0)
            /\ issuedAt[ret[t].g][ret[t].now] >= RANDFLAKE_MAX_SEQUENCE + 1
            /\ requestedAt[ret[t].g][ret[t].now] > RANDFLAKE_MAX_SEQUENCE + 1

\* C20: on a generator shared by concurrent callers whose clock never runs
\* backwards, a Generate call returns ResourceExhausted only if at least 131072
\* Generate calls read the second of its clock reading
C20_NoSpuriousExhaustion ==
    \A t \in DOMAIN ret :
        (IsGenerate(ret[t]) /\ ret[t].err = ErrResourceExhausted /\ ~backwards[ret[t].g]) =>
            requestedAt[ret[t].g][ret[t].now] >= RANDFLAKE_MAX_SEQUENCE + 1

\* C21: a Generate call returns ConsistencyViolation only on a generator whose
\* clock has returned a value smaller than one it returned earlier
C21_ViolationOnlyBackwards ==
    \A t \in DOMAIN ret :
        (IsGenerate(ret[t]) /\ ret[t].err = ErrConsistencyViolation) => backwards[ret[t].g]

\* a Generate call of t is under way
InGenerate(t) == pc[t] \in {"newRAW", "lease", "add", "rollover", "cas", "store"}

\* C22: every Generate call that is under way returns, and a call starts its
\* loop over only from a compare-and-swap that found rollover later than the
\* value the call had loaded, i.e. advanced by another caller in between
C22_GenerateTerminates ==
    /\ \A t \in Threads : InGenerate(t) ~> (pc[t] = "idle" /\ IsGenerate(ret[t]))
    /\ [][\A t \in Threads :
            (InGenerate(t) /\ pc[t] # "newRAW" /\ pc'[t] = "newRAW") =>
                /\ pc[t] = "cas"
                /\ Gt64(rollover[frame[t].g], frame[t].last_rollover)
                /\ rollover' = rollover]_vars

\* C22 happens: a call lost the race for the rollover and is about to start over
C22_Witness ==
    \E t \in Threads : pc[t] = "newRAW" /\ ~frame[t].first

\* the last Generate call of t failed with InvalidLease at a clock value inside
\* [leaseStart, ...] but past the leaseEnd it loaded, and an UpdateLease that
\* extended the lease of that generator to that clock value or later has returned
C23_Renewed(t) ==
    /\ IsGenerate(ret[t]) /\ ret[t].err = ErrInvalidLease
    /\ Ge64(ret[t].now, leaseStart[ret[t].g]) /\ Gt64(ret[t].now, ret[t].leSeen)
    /\ \E u \in DOMAIN ret :
         /\ IsUpdateLease(ret[u]) /\ ret[u].ok /\ ret[u].g = ret[t].g
         /\ Ge64(ret[u].leaseEnd, ret[t].now)

\* C23: after a Generate call failed with InvalidLease because the clock was
\* past leaseEnd, and an UpdateLease extended the lease to that clock value or
\* later, the caller's next Generate call on that generator that reads the same
\* clock value, the sequence counter being below its maximum, returns an identifier
C23_LeasePerCall ==
    [][\A t \in DOMAIN pc :
         (/\ InGenerate(t) /\ pc'[t] = "idle"
          /\ C23_Renewed(t) /\ frame[t].g = ret[t].g
          /\ IsGenerate(ret'[t]) /\ ret'[t].now = ret[t].now
          /\ sequence[ret[t].g] < RANDFLAKE_MAX_SEQUENCE)
         => ret'[t].err = nil]_vars

\* C23 happens: after the failure and the extension, the caller's next call has
\* read the same clock value and passed the lease checks
C23_Witness ==
    \E t \in DOMAIN pc :
        /\ C23_Renewed(t) /\ pc[t] = "add" /\ frame[t].g = ret[t].g
        /\ frame[t].now = ret[t].now
        /\ sequence[ret[t].g] < RANDFLAKE_MAX_SEQUENCE

\* the last call of t returned ResourceExhausted and t is in its next Generate
\* call on the same generator
C24_AfterExhausted(t) ==
    /\ IsGenerate(ret[t]) /\ ret[t].err = ErrResourceExhausted
    /\ InGenerate(t) /\ frame[t].g = ret[t].g

\* C24: with one sequential caller, the Generate call that follows a call that
\* returned ResourceExhausted at clock value T returns ResourceExhausted too when
\* it reads T, and when it reads a later value that is not past leaseEnd it
\* returns an identifier of sequence 0 and leaves rollover at the value it read
C24_ExhaustedIsTransient ==
    [][\A t \in DOMAIN pc :
         (C24_AfterExhausted(t) /\ pc'[t] = "idle" /\ IsGenerate(ret'[t])) =>
             /\ ret'[t].now = ret[t].now => ret'[t].err = ErrResourceExhausted
             /\ (Gt64(ret'[t].now, ret[t].now) /\ Le64(ret'[t].now, leaseEnd[ret[t].g])) =>
                   /\ ret'[t].err = nil /\ ret'[t].sequence = 0
                   /\ rollover'[ret[t].g] = ret'[t].now]_vars

\* C24 happens: after ResourceExhausted the next call read a later second of
\* the lease and is about to reset the sequence counter
C24_Witness ==
    \E t \in DOMAIN pc :
        C24_AfterExhausted(t) /\ pc[t] = "store" /\ Gt64(frame[t].now, ret[t].now)

\* C25: with one sequential caller, on a generator whose clock never ran
\* backwards and read every second in at most 131072 Generate calls, the
\* identifiers returned are pairwise distinct: none was returned twice, and no
\* (timestamp, sequence) pair was used twice
C25_SequentialUniqueness ==
    \A g \in Gens :
        (~backwards[g] /\ WithinCapacity(g)) =>
            /\ dups[g] = {}
            /\ \A r1 \in issued[g] : \A r2 \in issued[g] :
                 (r1 # r2 /\ r1.ts = r2.ts) => (r1.hi < r2.lo \/ r2.hi < r1.lo)

\* C25 happens: within the capacity, the counter overflowed in a second in which
\* identifiers had been issued before, and sequence 0 was returned in that second
C25_Witness ==
    \E t \in DOMAIN ret :
        /\ IsGenerate(ret[t]) /\ ret[t].err = nil /\ ret[t].sequence = 0
        /\ ~backwards[ret[t].g] /\ WithinCapacity(ret[t].g)
        /\ issuedAt[ret[t].g][ret[t].now] > 1

\* C26: with one sequential caller and a clock that never ran backwards, the
\* (timestamp, sequence) pair of the identifier a Generate call returns is
\* greater, in lexicographic order, than the pair of every identifier the
\* generator issued before
C26_Ordering ==
    \A t \in DOMAIN ret :
        (IsGenerate(ret[t]) /\ ret[t].err = nil /\ ~backwards[ret[t].g]) =>
            \A r \in issued[ret[t].g] :
                \/ Lt64(r.ts, ret[t].now)
                \/ r.ts = ret[t].now /\ r.hi <= ret[t].sequence

\* C27: for every Generate call that returned an identifier, in any
\* interleaving: its clock reading is in [leaseStart, stored leaseEnd], the
\* offset of the reading from the epoch is in 0..2^30-1, its sequence number is
\* in 0..131071, and the 64-bit value it encrypted yields the offset, the
\* generator's node id and the sequence number when its three fields (the top
\* 30 bits, the next 17, the low 17) are read back
C27_FieldRanges ==
    \A t \in DOMAIN ret :
        (IsGenerate(ret[t]) /\ ret[t].err = nil) =>
            LET g      == ret[t].g
                offset == Sub64(ret[t].now, RANDFLAKE_EPOCH_OFFSET)
                raw    == PackRAW(ret[t].now, nodeID[g], ret[t].sequence)
            IN  /\ EncryptID(sbox[g], raw) = ret[t].id
                /\ Le64(leaseStart[g], ret[t].now) /\ Le64(ret[t].now, leaseEnd[g])
                /\ ~IsNeg64(offset)
                /\ Le64(offset, I64(2^RANDFLAKE_TIMESTAMP_BITS - 1))
                /\ ret[t].sequence \in 0..RANDFLAKE_MAX_SEQUENCE
                /\ Shr64(raw, RANDFLAKE_NODE_BITS + RANDFLAKE_SEQUENCE_BITS) = offset
                /\ And64(Shr64(raw, RANDFLAKE_SEQUENCE_BITS), I64(RANDFLAKE_MAX_NODE)) = I64(nodeID[g])
                /\ And64(raw, I64(RANDFLAKE_MAX_SEQUENCE)) = I64(ret[t].sequence)

\* C27 happens: an identifier was issued in the last second the timestamp field
\* can hold, with the largest sequence number
C27_Witness ==
    \E t \in DOMAIN ret :
        /\ IsGenerate(ret[t]) /\ ret[t].err = nil
        /\ ret[t].now = RANDFLAKE_MAX_TIMESTAMP
        /\ ret[t].sequence = RANDFLAKE_MAX_SEQUENCE

\* C28: in every reachable state, after any interleaving of Generate and
\* UpdateLease calls, EPOCH_OFFSET <= leaseStart <= leaseEnd <= MAX_TIMESTAMP
\* for every generator
C28_LeaseInvariant ==
    \A g \in Gens :
        /\ Le64(RANDFLAKE_EPOCH_OFFSET, leaseStart[g])
        /\ Le64(leaseStart[g], leaseEnd[g])
        /\ Le64(leaseEnd[g], RANDFLAKE_MAX_TIMESTAMP)
        /\ RANDFLAKE_MAX_TIMESTAMP = Add64(RANDFLAKE_EPOCH_OFFSET, I64(2^30 - 1))

\* C28 happens: the lease was extended to the maximum timestamp and an
\* UpdateLease that asked for a later end returned false
C28_Witness ==
    \E t \in DOMAIN ret : \E u \in DOMAIN ret :
        /\ IsUpdateLease(ret[t]) /\ ret[t].ok /\ leaseEnd[ret[t].g] = RANDFLAKE_MAX_TIMESTAMP
        /\ IsUpdateLease(ret[u]) /\ ~ret[u].ok /\ ret[u].g = ret[t].g
        /\ ret[u].leaseStart = leaseStart[ret[u].g]
        /\ Gt64(ret[u].leaseEnd, RANDFLAKE_MAX_TIMESTAMP)

\* C29: whenever no call is under way, the stored sequence counter of every
\* generator is within 0..131071
C29_SequenceRange ==
    (\A t \in DOMAIN pc : pc[t] = "idle") =>
        \A g \in Gens : sequence[g] \in 0..RANDFLAKE_MAX_SEQUENCE

\* the call of t has loaded rollover of g, found it earlier than its clock
\* reading, and its compare-and-swap succeeds in this step
C30_CasSucceeds(t, g) ==
    /\ pc[t] = "cas" /\ pc'[t] = "store" /\ frame[t].g = g
    /\ rollover[g] = frame[t].last_rollover
    /\ Gt64(frame[t].now, rollover[g])
    /\ rollover'[g] = frame[t].now

\* C30: in any interleaving, the rollover timestamp of a generator is what
\* NewGenerator stored (leaseStart) or a value read from the clock, within
\* [leaseStart, stored leaseEnd]; it changes only in a successful
\* compare-and-swap of a Generate call, to the later value that call read from
\* the clock; a call gets to its reset of the sequence counter only through a
\* successful compare-and-swap, and the counter becomes 0 only in that reset
C30_RolloverInvariant ==
    /\ [](\A g \in Gens :
            /\ NewGenerator(nodeID[g], leaseStart[g], leaseEnd[g], SecretKAT).rollover = leaseStart[g]
            /\ Le64(leaseStart[g], rollover[g]) /\ Le64(rollover[g], leaseEnd[g])
            /\ rollover[g] = leaseStart[g] \/ Le64(rollover[g], clock[g]))
    /\ [][\A g \in Gens :
            /\ Le64(rollover[g], rollover'[g])
            /\ rollover'[g] # rollover[g] => \E t \in DOMAIN pc : C30_CasSucceeds(t, g)
            /\ \A t \in DOMAIN pc :
                 (pc[t] # "store" /\ pc'[t] = "store" /\ frame'[t].g = g) => C30_CasSucceeds(t, g)
            /\ (sequence[g] # 0 /\ sequence'[g] = 0) =>
                 \E t \in DOMAIN pc : pc[t] = "store" /\ frame[t].g = g /\ pc'[t] = "idle"]_vars

\* C30 happens: two calls were racing for the rollover, one has won and reset
\* the sequence counter, the other has not yet tried its compare-and-swap
C30_Witness ==
    \E t \in DOMAIN ret : \E u \in DOMAIN pc :
        /\ IsGenerate(ret[t]) /\ ret[t].err = nil /\ ret[t].sequence = 0
        /\ rollover[ret[t].g] = ret[t].now /\ Gt64(rollover[ret[t].g], leaseStart[ret[t].g])
        /\ sequence[ret[t].g] = 0
        /\ pc[u] = "cas" /\ frame[u].g = ret[t].g

\* the raw value Inspect decrypts from each identifier inspected
DecryptedRAW ==
    [id \in InspectIDs |-> Uint64(Decrypt(KATSubkeys, PutUint64(id), PutUint64(id)).dst)]

C32_FrameConditions ==
    [][/\ nodeID' = nodeID /\ leaseStart' = leaseStart /\ sbox' = sbox
       /\ cipher' = cipher
       /\ leaseEnd' # leaseEnd =>
            /\ \E t \in DOMAIN pc : pc[t] = "lease_cas" /\ ret'[t].op = "UpdateLease"
            /\ sequence' = sequence /\ rollover' = rollover
       /\ (sequence' # sequence \/ rollover' # rollover) =>
            /\ \E t \in DOMAIN pc : InGenerate(t) /\ frame[t].op = "Generate"
            /\ leaseEnd' = leaseEnd
       /\ \A t \in DOMAIN pc :
            (/\ pc[t] = "idle" /\ pc'[t] = "idle"
             /\ ret'[t].op \in {"Inspect", "InspectID", "InspectString", "EncodeString", "DecodeString"})
            => UNCHANGED genvars
       /\ (buf' # buf \/ trail' # trail) => UNCHANGED genvars]_vars

\* C32 happens: UpdateLease has extended the lease, Generate has moved the
\* rollover timestamp, the Sparx64 instance has encrypted or decrypted and the
\* caller has just inspected a string
C32_Witness ==
    \E g \in Gens :
        /\ Gt64(leaseEnd[g], Add64(leaseStart[g], I64(1)))
        /\ Gt64(rollover[g], leaseStart[g])
        /\ trail # <<>>
        /\ ret[1].op = "InspectString" /\ ret[1].err = nil

\* every word of the subkeys is zero
AllZero(subkeys) == \A i \in DOMAIN subkeys : \A j \in DOMAIN subkeys[i] : subkeys[i][j] = 0

\* C33: once Destroy was called on a Sparx64 instance (Go or TypeScript), each
\* of its 17 x 6 round-key words is zero, whatever its key; and the
\* constructor leaves its temporary copy of the 8 master key words zeroed
C33_KeyZeroisation ==
    /\ (\E i \in DOMAIN trail : trail[i].op = "Destroy") =>
           /\ Len(cipher.subkeys) = 17
           /\ \A i \in DOMAIN cipher.subkeys : Len(cipher.subkeys[i]) = 6
           /\ AllZero(cipher.subkeys)
    /\ LET made == IF cipher.lang = "go" THEN NewSparx64(cipher.key) ELSE Sparx64(cipher.key)
       IN  made._key = [i \in 1..8 |-> 0]

\* C33 happens: an instance made with the key of sixteen 0xff bytes, whose
\* round keys were not zero, has encrypted a block and was destroyed
C33_Witness ==
    /\ cipher.key = [i \in 1..16 |-> 255]
    /\ ~AllZero(NewSparx64(cipher.key).subkeys)
    /\ Ops(trail) = <<"Encrypt", "Destroy">>
    /\ AllZero(cipher.subkeys)

\* C34: NewGenerator (Go) and new Generator (TypeScript) report the first
\* check that fails in the order leaseEnd < leaseStart (ErrInvalidLease), node
\* id out of range (ErrInvalidNode), leaseStart < EPOCH_OFFSET
\* (ErrInvalidLease), leaseEnd > MAX_TIMESTAMP (ErrRandflakeDead), secret not
\* of 16 bytes (ErrInvalidSecret), whatever else is wrong with the arguments
C34_ValidationPrecedence ==
    \A t \in DOMAIN ret :
        ret[t].op \in {"NewGenerator", "Generator"} =>
            LET r         == ret[t]
                badOrder  == Lt64(r.leaseEnd, r.leaseStart)
                badNode   == r.nodeID < 0 \/ r.nodeID > 131071
                badStart  == Lt64(r.leaseStart, RANDFLAKE_EPOCH_OFFSET)
                dead      == Gt64(r.leaseEnd, RANDFLAKE_MAX_TIMESTAMP)
                badSecret == Len(r.secret) # 16
            IN  /\ badOrder => r.err = ErrInvalidLease
                /\ (~badOrder /\ badNode) => r.err = ErrInvalidNode
                /\ (~badOrder /\ ~badNode /\ badStart) => r.err = ErrInvalidLease
                /\ (~badOrder /\ ~badNode /\ ~badStart /\ dead) => r.err = ErrRandflakeDead
                /\ (~badOrder /\ ~badNode /\ ~badStart /\ ~dead /\ badSecret) =>
                       r.err = ErrInvalidSecret

\* C34 happens: the TypeScript constructor was given a node id out of range, a
\* leaseStart before the epoch, a leaseEnd after the last timestamp and a
\* secret of 15 bytes, and reported the node id
C34_Witness ==
    \E t \in DOMAIN ret :
        /\ ret[t].op = "Generator" /\ ret[t].err = ErrInvalidNode
        /\ ret[t].nodeID = -1
        /\ Lt64(ret[t].leaseStart, RANDFLAKE_EPOCH_OFFSET)
        /\ Gt64(ret[t].leaseEnd, RANDFLAKE_MAX_TIMESTAMP)
        /\ Len(ret[t].secret) = 15

\* C35: with one sequential caller, a Generate call adds 1 to the stored
\* counter; when the sum is within 131071 the call issues it as the sequence
\* number and it stays stored, so a new generator issues 1 first and a call
\* right after a successful one issues the next number; when the sum is
\* beyond 131071 the call issues no number but 0, and stores 0 with it
C35_SequenceNumbering ==
    [][\A t \in DOMAIN pc :
         LET g == frame[t].g
             returns == pc'[t] = "idle" /\ ret'[t].op = "Generate" /\ ret'[t].err = nil
         IN  /\ (pc[t] = "add" /\ sequence[g] + 1 <= 131071) =>
                   /\ returns
                   /\ ret'[t].sequence = sequence[g] + 1
                   /\ sequence'[g] = sequence[g] + 1
             /\ (pc[t] = "add" /\ sequence[g] + 1 > 131071) =>
                   /\ pc'[t] = "rollover"
                   /\ sequence'[g] = sequence[g] + 1
             /\ (pc[t] \in {"rollover", "cas", "store"} /\ returns) =>
                   /\ sequence[g] > 131071
                   /\ ret'[t].sequence = 0
                   /\ sequence'[g] = 0
             /\ (InGenerate(t) /\ returns /\ issued[g] = {}) => ret'[t].sequence = 1
             /\ (InGenerate(t) /\ returns /\ IsGenerate(ret[t]) /\ ret[t].err = nil
                   /\ ret[t].g = g) =>
                   ret'[t].sequence = IF ret[t].sequence < 131071 THEN ret[t].sequence + 1 ELSE 0
      ]_vars

\* C35 happens: the caller was issued 131071, and its next call, a second
\* later, was issued 0
C35_Witness ==
    \E t \in DOMAIN ret :
        /\ IsGenerate(ret[t]) /\ ret[t].err = nil /\ ret[t].sequence = 0
        /\ sequence[ret[t].g] = 0
        /\ \E r \in issued[ret[t].g] :
             /\ r.hi = 131071 /\ Lt64(r.ts, ret[t].now)
             /\ issuedAt[ret[t].g][r.ts] > 0

\* the fields and the error an inspection returned
Inspected(r) == [timestamp |-> r.timestamp, nodeID |-> r.nodeID, sequence |-> r.sequence, err |-> r.err]

\* C36: GenerateString fails with the error of the Generate call it made, and
\* otherwise returns EncodeString of the identifier that call returned;
\* InspectString(s) fails with ErrInvalidID when DecodeString(s) does, and
\* otherwise returns what Inspect of the decoded identifier returns; so
\* InspectString of the string GenerateString returned is Inspect of the
\* identifier its Generate call returned
C36_StringForms ==
    /\ [][\A t \in DOMAIN ret :
            (ret[t].op = "Generate" /\ ret'[t].op = "GenerateString") =>
                /\ ret'[t].err = ret[t].err
                /\ ret[t].err # nil => ret'[t].s = <<>>
                /\ ret[t].err = nil => ret'[t].s = EncodeString(ret[t].id)]_vars
    /\ [](\A t \in DOMAIN ret :
            /\ ret[t].op = "InspectString" =>
                 LET d == DecodeString(ret[t].s)
                 IN  IF d.err # nil
                     THEN Inspected(ret[t]) = [timestamp |-> I64(0), nodeID |-> 0, sequence |-> 0,
                                               err |-> ErrInvalidID]
                     ELSE Inspected(ret[t]) = Inspect(sbox[ret[t].g], d.id)
            /\ (ret[t].op = "GenerateString" /\ ret[t].err = nil) =>
                 InspectString(sbox[ret[t].g], ret[t].s) = Inspect(sbox[ret[t].g], ret[t].id))

\* C36 happens: InspectString of a string that GenerateString returned gave the
\* clock reading, the node id and the sequence number of that call
C36_Witness ==
    \E t \in DOMAIN ret : \E g \in Gens :
        /\ ret[t].op = "InspectString" /\ ret[t].err = nil /\ ret[t].g = g
        /\ ret[t].s \notin InspectStrs
        /\ ret[t].nodeID = nodeID[g]
        /\ \E r \in issued[g] : r.ts = ret[t].timestamp /\ ret[t].sequence \in r.lo..r.hi
        /\ issuedAt[g][ret[t].timestamp] > 0

DigitValue(c) ==
    IF c <= Rune["9"] THEN c - Rune["0"]
    ELSE IF c >= Rune["a"] THEN c - Rune["a"] + 10
    ELSE c - Rune["A"] + 10

\* bit k of the base-32 number that the symbols of s write: bit k % 5 of the
\* digit k \div 5 places from the end
NumeralBit(s, k) ==
    LET pos == Len(s) - (k \div 5)
    IN  IF pos < 1 THEN 0 ELSE (DigitValue(s[pos]) \div 2^(k % 5)) % 2

\* the 16 bits from bit k on of that number, from bit b of them on
RECURSIVE NumeralWord(_, _, _)
NumeralWord(s, k, b) ==
    IF b > 15 THEN 0 ELSE NumeralBit(s, k + b) * 2^b + NumeralWord(s, k, b + 1)

\* that number modulo 2^64
NumeralMod64(s) == [j \in 1..4 |-> NumeralWord(s, 16 * (j - 1), 0)]

C39_SizeValidation ==
    /\ \A i \in DOMAIN trail :
         LET e == trail[i]
         IN  /\ (e.op = "New" /\ Len(e.key) # 16) => e.failed
             /\ (e.op \in {"Encrypt", "Decrypt"} /\ (Len(e.src) # 8 \/ Len(e.dst) < 8)) =>
                    e.failed /\ e.out = e.dst
    /\ \A t \in DOMAIN ret :
         ret[t].op \in {"NewGenerator", "Generator"} =>
             /\ Len(ret[t].secret) # 16 =>
                    /\ ~ret[t].made /\ ret[t].g \notin Gens
                    /\ ret[t].err \in {ErrInvalidLease, ErrInvalidNode, ErrRandflakeDead, ErrInvalidSecret}
                    /\ Le64(ret[t].leaseEnd, RANDFLAKE_MAX_TIMESTAMP) => ret[t].err = ErrInvalidSecret
             /\ ret[t].made =>
                    /\ ~NewSparx64(ret[t].secret).panic /\ ~Sparx64(ret[t].secret).throws
                    /\ sbox[ret[t].g] = NewSparx64(ret[t].secret).subkeys

\* C39 happens: the Go Encrypt was given a src of 9 bytes and a dst of 7
\* bytes, which its test of len(src) lets through, and failed
C39_Witness ==
    \E i \in DOMAIN trail :
        /\ trail[i].op = "Encrypt" /\ trail[i].lang = "go"
        /\ Len(trail[i].src) = 9 /\ Len(trail[i].dst) = 7
        /\ trail[i].failed /\ buf = trail[i].dst

\* C40: A_inv undoes A and A undoes A_inv on every pair of 16-bit words, the
\* sum and the difference taken modulo 2^16, and L_2_inv undoes L_2 and L_2
\* undoes L_2_inv on every block of four words (Go and TypeScript)
C40_ComponentInverses ==
    /\ \A i \in 1..4 : buf[i] \in 0..65535
    /\ Ops(trail) \in {<<"A", "A_inv">>, <<"A_inv", "A">>,
                       <<"L_2", "L_2_inv">>, <<"L_2_inv", "L_2">>} => buf = plain

\* C40 happens: A changed a pair whose sum passes 2^16, and A_inv restored it
C40_Witness ==
    /\ Ops(trail) = <<"A", "A_inv">>
    /\ plain[1] = 65535 /\ plain[2] = 65535
    /\ SubSeq(trail[1].out, 1, 2) # SubSeq(plain, 1, 2)
    /\ buf = plain
====
